---- MODULE Spec2Model ----
(***************************************************************************)
(* gitlab-settings-enforcer: the sync and compliance commands and the      *)
(* ProjectManager they drive, as a state machine over the remote GitLab    *)
(* state, the configuration, the recorded snapshots and the error flag.    *)
(* Every remote call the program issues is appended to `calls`.            *)
(***************************************************************************)
EXTENDS Integers, Sequences, FiniteSets, TLC

VARIABLES
    cmd,        \* the command that runs: "sync" or "compliance"
    dryrun,     \* env.Dryrun
    config,     \* config.Config, the error flag config.Error included
    remote,     \* the state of the GitLab server
    calls,      \* the remote calls issued so far, in order
    ops,        \* the per-project operations the command loop ran, with their results
    projects,   \* repos of GetProjects while it lists, then its result
    index,      \* the loop variable of the per-project loop (1-based)
    pc,         \* the position of the command
    snap,       \* the four snapshot maps of the ProjectManager
    faults,     \* the number of remote calls that have failed so far
    listGroupProjectOps, \* the package-level options of the project listing
    rule,       \* the loop variable of the loop over config.ProtectedBranches (1-based)
    groupID,    \* GetProjects: the id of the resolved group
    listings,   \* the project lists the calls of GetProjects have returned, in order
    report      \* the lines of the compliance report printed so far

vars == <<cmd, dryrun, config, remote, calls, ops, projects, index, pc, snap, faults,
          listGroupProjectOps, rule, groupID, listings, report>>

----------------------------------------------------------------------------
(* Bounds of the model *)

\* the longest group path, in segments
MaxSegs == 3
\* the most projects a group holds
NumProjects == 2
\* the most protected-branch rules a configuration declares
MaxRules == 2
\* the most remote calls that fail in one run
MaxFaults == 2
\* the page size of the project listing
PerPage == 1
\* the most calls of GetProjects one process makes
MaxListings == 2

----------------------------------------------------------------------------
(* Access levels *)

NoPermissions == 0
DeveloperPermissions == 30
MaintainerPermissions == 40

AccessLevelDeveloper == "developer"
AccessLevelMaintainer == "maintainer"

\* AccessLevel.Value
Value(a) ==
    CASE a = AccessLevelDeveloper -> DeveloperPermissions
      [] a = AccessLevelMaintainer -> MaintainerPermissions
      [] OTHER -> NoPermissions

----------------------------------------------------------------------------
(* Helpers on sequences *)

Last(s) == s[Len(s)]

RECURSIVE SelectSeqBy(_, _)
\* the elements of s that lie in the set keep, in order
SelectSeqBy(s, keep) ==
    IF s = <<>> THEN <<>>
    ELSE IF Head(s) \in keep THEN <<Head(s)>> \o SelectSeqBy(Tail(s), keep)
         ELSE SelectSeqBy(Tail(s), keep)

\* one remote call, as logged in `calls`
\* resp is "ok", "404" or "error" (no response, or another status code)
Call(op, target, name, a, b, resp) ==
    [op |-> op, target |-> target, name |-> name, a |-> a, b |-> b, resp |-> resp,
     ref |-> ""]

\* the calls of the log cs to the endpoint op
CallsTo(cs, op) == SelectSeq(cs, LAMBDA c : c.op = op)

\* the sets of call sites that fail, given how many failures are left
FaultSets(sites, left) == {f \in SUBSET sites : Cardinality(f) <= left}

----------------------------------------------------------------------------
(* The remote group tree *)

\* regexp.MatchString("^" + subpath + "$", path) on the segment names of the model:
\* "." in the pattern matches any one character
RegexpMatchString(subpath, path) ==
    \/ subpath = path
    \/ subpath = "b.c" /\ path = "bxc"

GroupsOf(rem) == {rem.groups[i] : i \in DOMAIN rem.groups}

\* the groups a call addresses: a root group by its path when group_ID = 0 (the
\* group_info of GetSubgroupID, the name of GetGroup), any group by its id otherwise
AddressedGroups(rem, group_ID, base) ==
    {g \in GroupsOf(rem) :
        IF group_ID = 0 THEN g.Parent = 0 /\ g.Path = base ELSE g.ID = group_ID}

\* groupsClient.ListSubgroups: the direct subgroups in listing order, or an error
\* (the call fails, or the addressed group does not exist)
ListSubgroups(rem, group_ID, base, failed) ==
    LET addressed == AddressedGroups(rem, group_ID, base)
    IN  IF failed \/ addressed = {}
        THEN [err |-> TRUE, resp |-> IF failed THEN "error" ELSE "404", list |-> <<>>]
        ELSE LET g == CHOOSE x \in addressed : TRUE
             IN  [err |-> FALSE, resp |-> "ok",
                  list |-> SelectSeqBy(rem.groups,
                                       {x \in GroupsOf(rem) : x.Parent = g.ID})]

RECURSIVE MatchSubgroup(_, _, _)
\* the loop over the listed subgroups: the last match sets subgroup_ID
MatchSubgroup(subgroups, subpath, subgroup_ID) ==
    IF subgroups = <<>> THEN subgroup_ID
    ELSE MatchSubgroup(Tail(subgroups), subpath,
                       IF RegexpMatchString(subpath, Head(subgroups).Path)
                       THEN Head(subgroups).ID ELSE subgroup_ID)

\* GetSubgroupID without the descent: one lookup, whatever the depth of the path
GetSubgroupIDNoDescent(rem, path, indent, group_ID, fail) ==
    LET failed == <<"ListSubgroups", indent>> \in fail
        r      == ListSubgroups(rem, group_ID, path[1], failed)
        call   == Call("ListSubgroups", group_ID,
                       IF group_ID = 0 THEN path[1] ELSE "", indent, 0, r.resp)
    IN  [id |-> IF r.err THEN 0 ELSE MatchSubgroup(r.list, path[indent + 1], 0),
         err |-> r.err, calls |-> <<call>>, nfail |-> IF failed THEN 1 ELSE 0]

RECURSIVE GetSubgroupID(_, _, _, _, _)
\* ProjectManager.GetSubgroupID(path, indent, group_ID); path is the split
\* GroupName, so the Go index `indent` is position indent + 1 here.
\* fail is the set of call sites that fail.
GetSubgroupID(rem, path, indent, group_ID, fail) ==
    LET subpath   == path[indent + 1]
        pathCount == Len(path) - 1
        failed    == <<"ListSubgroups", indent>> \in fail
        r         == ListSubgroups(rem, group_ID, path[1], failed)
        call      == Call("ListSubgroups", group_ID,
                          IF group_ID = 0 THEN path[1] ELSE "", indent, 0, r.resp)
    IN  IF r.err
        THEN [id |-> 0, err |-> TRUE, calls |-> <<call>>,
              nfail |-> IF failed THEN 1 ELSE 0]
        ELSE LET subgroup_ID == MatchSubgroup(r.list, subpath, 0)
             IN  IF indent # pathCount
                 THEN LET deeper == GetSubgroupID(rem, path, indent + 1, subgroup_ID, fail)
                      IN  \* subgroup_ID, _ = m.GetSubgroupID(...): the error is dropped
                          [id |-> deeper.id, err |-> FALSE,
                           calls |-> <<call>> \o deeper.calls, nfail |-> deeper.nfail]
                 ELSE [id |-> subgroup_ID, err |-> FALSE, calls |-> <<call>>, nfail |-> 0]

\* groupsClient.GetGroup(groupName)
GetGroup(rem, groupName, failed) ==
    LET addressed == AddressedGroups(rem, 0, groupName)
    IN  IF failed \/ addressed = {}
        THEN [err |-> TRUE, resp |-> IF failed THEN "error" ELSE "404", ID |-> 0]
        ELSE [err |-> FALSE, resp |-> "ok", ID |-> (CHOOSE x \in addressed : TRUE).ID]

----------------------------------------------------------------------------
(* The project listing *)

\* the projects of a group, in listing order
GroupProjects(rem, gid) ==
    SelectSeqBy(rem.projects, {p \in {rem.projects[i] : i \in DOMAIN rem.projects} :
                                   p.Group = gid})

\* groupsClient.ListGroupProjects(groupID, listGroupProjectOps): one page of
\* rem.perPage projects and the paging headers of the response; page 0 is
\* served as page 1
ListGroupProjects(rem, gid, page, failed) ==
    LET all   == GroupProjects(rem, gid)
        n     == Len(all)
        total == (n + rem.perPage - 1) \div rem.perPage
        cur   == IF page < 1 THEN 1 ELSE page
        from  == (cur - 1) * rem.perPage + 1
        to    == IF cur * rem.perPage < n THEN cur * rem.perPage ELSE n
    IN  IF failed \/ AddressedGroups(rem, gid, "") = {} \/ gid = 0
        THEN [err |-> TRUE, resp |-> IF failed THEN "error" ELSE "404",
              projects |-> <<>>, Page |-> 0, TotalPages |-> 0, NextPage |-> 0]
        ELSE [err |-> FALSE, resp |-> "ok",
              projects |-> IF from <= to THEN SubSeq(all, from, to) ELSE <<>>,
              Page |-> cur, TotalPages |-> total,
              NextPage |-> IF cur < total THEN cur + 1 ELSE 0]

\* strings.Contains(path, entry) on paths and entries written as sequences
Occurs(entry, path) ==
    \E i \in 1..(Len(path) - Len(entry) + 1) : SubSeq(path, i, i + Len(entry) - 1) = entry

\* stringslice.Contains(needle, haystack): an entry of haystack occurs in needle
Contains(needle, haystack) == \E i \in DOMAIN haystack : Occurs(haystack[i], needle)

\* the loop over one page without its test of the blacklist
KeepProjectsNoBlacklist(page, cfg) ==
    SelectSeqBy(page,
        {q \in {page[i] : i \in DOMAIN page} :
            ~(Len(cfg.ProjectWhitelist) > 0
                /\ ~Contains(q.PathWithNamespace, cfg.ProjectWhitelist))})

\* GetProjects, the loop over one page: the projects that are appended to repos
KeepProjects(page, cfg) ==
    SelectSeqBy(page,
        {q \in {page[i] : i \in DOMAIN page} :
            /\ ~(Len(cfg.ProjectWhitelist) > 0
                   /\ ~Contains(q.PathWithNamespace, cfg.ProjectWhitelist))
            /\ ~Contains(q.PathWithNamespace, cfg.ProjectBlacklist)})

\* GetProjects, its first part: the group id of config.GroupName
ResolveGroup(rem, cfg, fail) ==
    LET path   == cfg.GroupName
        sub    == GetSubgroupID(rem, path, 1, 0, fail)
        gfail  == <<"GetGroup", 0>> \in fail
        grp    == GetGroup(rem, path[1], gfail)
        gcall  == Call("GetGroup", 0, path[1], 0, 0, grp.resp)
    IN  IF Len(path) > 1
        THEN [err |-> sub.err, id |-> sub.id, calls |-> sub.calls, nfail |-> sub.nfail]
        ELSE [err |-> grp.err, id |-> grp.ID, calls |-> <<gcall>>,
              nfail |-> IF gfail THEN 1 ELSE 0]

\* the iteration that leaves the loop one page early
ListPageOneEarly(rem, cfg, gid, page, failed) ==
    LET r    == ListGroupProjects(rem, gid, page, failed)
        call == Call("ListGroupProjects", gid, "", page, r.Page, r.resp)
        last == page + 1 >= r.TotalPages \/ r.TotalPages = 1
    IN  [err |-> r.err, call |-> call,
         kept |-> IF r.err THEN <<>> ELSE KeepProjects(r.projects, cfg),
         break |-> r.err \/ last,
         Page |-> IF r.err \/ last THEN page ELSE r.NextPage]

\* GetProjects, one iteration of its pagination loop with listGroupProjectOps.Page
\* = page: the projects appended to repos, whether the loop is left, and the
\* page the options are left with
ListPage(rem, cfg, gid, page, failed) ==
    LET r    == ListGroupProjects(rem, gid, page, failed)
        call == Call("ListGroupProjects", gid, "", page, r.Page, r.resp)
        last == page >= r.TotalPages \/ r.TotalPages = 1
    IN  [err |-> r.err, call |-> call,
         kept |-> IF r.err THEN <<>> ELSE KeepProjects(r.projects, cfg),
         break |-> r.err \/ last,
         Page |-> IF r.err \/ last THEN page ELSE r.NextPage]

----------------------------------------------------------------------------
(* Branches and their protection *)

Unprotected == [present |-> FALSE, push |-> <<>>, merge |-> <<>>]
UnprotectedTag == [present |-> FALSE, create |-> <<>>]
ProtectedTag(create) == [present |-> TRUE, create |-> create]

\* the comparison taking the first of several entries for the only one
compareAccessLevelsFirstEntry(branchLevel, configLevel) ==
    Len(branchLevel) >= 1 /\ branchLevel[1] = Value(configLevel)

\* compareAccessLevels(branchLevel, configLevel)
compareAccessLevels(branchLevel, configLevel) ==
    Len(branchLevel) = 1 /\ branchLevel[1] = Value(configLevel)

\* the result of a handler: the error it returns, whether it crashed, the remote
\* state it leaves, the calls it issued and the number of calls that failed
Result(err, panic, rem, cs, nfail) ==
    [err |-> err, panic |-> panic, rem |-> rem, calls |-> cs, nfail |-> nfail]

\* the handler taking every failed fetch for "no such branch", whatever the
\* response
ensureDefaultBranchAnyStatus(rem, cfg, project, dry, fail) ==
    IF ~cfg.CreateDefaultBranch
    THEN Result(FALSE, FALSE, rem, <<>>, 0)
    ELSE IF ~cfg.ProjectSettings.present
    THEN Result(FALSE, TRUE, rem, <<>>, 0)
    ELSE IF "default_branch" \notin cfg.ProjectSettings.decl
            \/ cfg.ProjectSettings.val.default_branch = "master"
    THEN Result(FALSE, FALSE, rem, <<>>, 0)
    ELSE
      LET branch  == cfg.ProjectSettings.val.default_branch
          gfailed == <<"GetBranch", 0>> \in fail
          cfailed == <<"CreateBranch", 0>> \in fail
          exists  == branch \in rem.branches[project.ID]
          gn      == IF gfailed THEN 1 ELSE 0
          getcall == Call("GetBranch", project.ID, branch, 0, 0,
                          IF gfailed THEN "error" ELSE IF exists THEN "ok" ELSE "404")
          crcall  == [Call("CreateBranch", project.ID, branch, 0, 0,
                           IF cfailed THEN "error" ELSE "ok") EXCEPT !.ref = "master"]
      IN  IF ~gfailed /\ exists
          THEN Result(FALSE, FALSE, rem, <<getcall>>, 0)
          ELSE IF dry
          THEN Result(FALSE, FALSE, rem, <<getcall>>, gn)
          ELSE IF cfailed
          THEN Result(TRUE, FALSE, rem, <<getcall, crcall>>, gn + 1)
          ELSE Result(FALSE, FALSE,
                      [rem EXCEPT !.branches[project.ID] = @ \cup {branch}],
                      <<getcall, crcall>>, gn)

\* ProjectManager.ensureDefaultBranch(project, dryrun)
ensureDefaultBranch(rem, cfg, project, dry, fail) ==
    IF ~cfg.CreateDefaultBranch
    THEN Result(FALSE, FALSE, rem, <<>>, 0)
    ELSE IF ~cfg.ProjectSettings.present
    THEN \* m.config.ProjectSettings is nil: the field access dereferences it
         Result(FALSE, TRUE, rem, <<>>, 0)
    ELSE IF "default_branch" \notin cfg.ProjectSettings.decl
            \/ cfg.ProjectSettings.val.default_branch = "master"
    THEN Result(FALSE, FALSE, rem, <<>>, 0)
    ELSE
      LET branch  == cfg.ProjectSettings.val.default_branch
          gfailed == <<"GetBranch", 0>> \in fail
          cfailed == <<"CreateBranch", 0>> \in fail
          exists  == branch \in rem.branches[project.ID]
          getcall == Call("GetBranch", project.ID, branch, 0, 0,
                          IF gfailed THEN "error" ELSE IF exists THEN "ok" ELSE "404")
          crcall  == [Call("CreateBranch", project.ID, branch, 0, 0,
                           IF cfailed THEN "error" ELSE "ok") EXCEPT !.ref = "master"]
      IN  IF ~gfailed /\ exists
          THEN Result(FALSE, FALSE, rem, <<getcall>>, 0)
          ELSE IF gfailed
          THEN \* a nil response, or a status code other than 404
               Result(TRUE, FALSE, rem, <<getcall>>, 1)
          ELSE IF dry
          THEN Result(FALSE, FALSE, rem, <<getcall>>, 0)
          ELSE IF cfailed
          THEN Result(TRUE, FALSE, rem, <<getcall, crcall>>, 1)
          ELSE Result(FALSE, FALSE,
                      [rem EXCEPT !.branches[project.ID] = @ \cup {branch}],
                      <<getcall, crcall>>, 0)

\* the iteration with one of three slips: the current levels compared with the
\* declared levels of the other axis, the declared levels sent to the other
\* axis, or the dry run not looked at
ProtectBranchSlip(rem, b, i, project, dry, fail, swapCompare, swapSend, force) ==
    LET cur      == rem.protected[project.ID][b.Name]
        gfailed  == <<"GetProtectedBranch", i>> \in fail
        ufailed  == <<"UnprotectRepositoryBranches", i>> \in fail
        pfailed  == <<"ProtectRepositoryBranches", i>> \in fail
        geterr   == gfailed \/ ~cur.present
        cmpMerge == IF swapCompare THEN b.PushAccessLevel ELSE b.MergeAccessLevel
        cmpPush  == IF swapCompare THEN b.MergeAccessLevel ELSE b.PushAccessLevel
        sndMerge == IF swapSend THEN b.PushAccessLevel ELSE b.MergeAccessLevel
        sndPush  == IF swapSend THEN b.MergeAccessLevel ELSE b.PushAccessLevel
        matched  == /\ ~geterr
                    /\ compareAccessLevels(cur.merge, cmpMerge)
                    /\ compareAccessLevels(cur.push, cmpPush)
        getcall  == Call("GetProtectedBranch", project.ID, b.Name, 0, 0,
                         IF gfailed THEN "error" ELSE IF cur.present THEN "ok" ELSE "404")
        unpcall  == Call("UnprotectRepositoryBranches", project.ID, b.Name, 0, 0,
                         IF ufailed THEN "error" ELSE IF cur.present THEN "ok" ELSE "404")
        procall  == Call("ProtectRepositoryBranches", project.ID, b.Name,
                         Value(sndPush), Value(sndMerge),
                         IF pfailed THEN "error" ELSE "ok")
        gn       == IF gfailed THEN 1 ELSE 0
        rem1     == [rem EXCEPT !.protected[project.ID][b.Name] = Unprotected]
        rem2     == [rem EXCEPT !.protected[project.ID][b.Name] =
                        [present |-> TRUE, push |-> <<Value(sndPush)>>,
                         merge |-> <<Value(sndMerge)>>]]
    IN  IF matched \/ (dry /\ ~force)
        THEN Result(FALSE, FALSE, rem, <<getcall>>, gn)
        ELSE IF ufailed
        THEN Result(TRUE, FALSE, rem, <<getcall, unpcall>>, gn + 1)
        ELSE IF pfailed
        THEN Result(TRUE, FALSE, rem1, <<getcall, unpcall, procall>>, gn + 1)
        ELSE Result(FALSE, FALSE, rem2, <<getcall, unpcall, procall>>, gn)

ProtectBranchSwappedCompare(rem, b, i, project, dry, fail) ==
    ProtectBranchSlip(rem, b, i, project, dry, fail, TRUE, FALSE, FALSE)

ProtectBranchSwappedLevels(rem, b, i, project, dry, fail) ==
    ProtectBranchSlip(rem, b, i, project, dry, fail, FALSE, TRUE, FALSE)

ProtectBranchIgnoringDryrun(rem, b, i, project, dry, fail) ==
    ProtectBranchSlip(rem, b, i, project, dry, fail, FALSE, FALSE, TRUE)

\* the iteration with a branch that is not protected passed over: the 404 of
\* GetProtectedBranch taken for "nothing to do"
ProtectBranchNotFoundSkipped(rem, b, i, project, dry, fail) ==
    IF ~rem.protected[project.ID][b.Name].present /\ <<"GetProtectedBranch", i>> \notin fail
    THEN Result(FALSE, FALSE, rem,
                <<Call("GetProtectedBranch", project.ID, b.Name, 0, 0, "404")>>, 0)
    ELSE ProtectBranchSlip(rem, b, i, project, dry, fail, FALSE, FALSE, FALSE)

\* the iteration looking first whether the branch of the rule exists
ProtectBranchFetchingBranch(rem, b, i, project, dry, fail) ==
    LET r == ProtectBranchSlip(rem, b, i, project, dry, fail, FALSE, FALSE, FALSE)
    IN  [r EXCEPT !.calls = <<Call("GetBranch", project.ID, b.Name, 0, 0, "ok")>> \o @]

\* the iteration going on to the next rule after a protect call that failed
ProtectBranchFailureIgnored(rem, b, i, project, dry, fail) ==
    LET r == ProtectBranchSlip(rem, b, i, project, dry, fail, FALSE, FALSE, FALSE)
    IN  IF r.err /\ Len(r.calls) = 3 THEN [r EXCEPT !.err = FALSE] ELSE r

\* the iteration without the comparison of the levels: a protection that
\* matches the rule is removed and set again
ProtectBranchWithoutCompare(rem, b, i, project, dry, fail) ==
    LET r == ProtectBranchSlip(rem, b, i, project, dry, fail, FALSE, FALSE, FALSE)
    IN  IF ~dry /\ Len(r.calls) = 1
        THEN [r EXCEPT !.calls = @ \o
                 <<Call("UnprotectRepositoryBranches", project.ID, b.Name, 0, 0, "ok"),
                   Call("ProtectRepositoryBranches", project.ID, b.Name,
                        Value(b.PushAccessLevel), Value(b.MergeAccessLevel), "ok")>>]
        ELSE r

\* the iteration returning the error of a GetProtectedBranch call that failed
\* with something other than 404
ProtectBranchFetchFailureReturned(rem, b, i, project, dry, fail) ==
    IF <<"GetProtectedBranch", i>> \in fail
    THEN Result(TRUE, FALSE, rem,
                <<Call("GetProtectedBranch", project.ID, b.Name, 0, 0, "error")>>, 1)
    ELSE ProtectBranchSlip(rem, b, i, project, dry, fail, FALSE, FALSE, FALSE)

\* the iteration going on to the protect call after an unprotect call that
\* failed with something other than 404
ProtectBranchUnprotectFailureTolerated(rem, b, i, project, dry, fail) ==
    LET u == <<"UnprotectRepositoryBranches", i>>
        r == ProtectBranchSlip(rem, b, i, project, dry, fail \ {u}, FALSE, FALSE, FALSE)
    IN  IF u \in fail /\ Len(r.calls) >= 2
        THEN [r EXCEPT !.calls[2].resp = "error", !.nfail = @ + 1]
        ELSE r

\* one iteration of the loop of EnsureBranchesAndProtection: the rule b, the
\* i-th of config.ProtectedBranches. err is the error the handler returns at
\* once; without one the loop goes on to the next rule.
ProtectBranch(rem, b, i, project, dry, fail) ==
    LET cur      == rem.protected[project.ID][b.Name]
        gfailed  == <<"GetProtectedBranch", i>> \in fail
        ufailed  == <<"UnprotectRepositoryBranches", i>> \in fail
        pfailed  == <<"ProtectRepositoryBranches", i>> \in fail
        \* GetProtectedBranch answers 404 for a branch that is not protected
        geterr   == gfailed \/ ~cur.present
        matched  == /\ ~geterr
                    /\ compareAccessLevels(cur.merge, b.MergeAccessLevel)
                    /\ compareAccessLevels(cur.push, b.PushAccessLevel)
        getcall  == Call("GetProtectedBranch", project.ID, b.Name, 0, 0,
                         IF gfailed THEN "error" ELSE IF cur.present THEN "ok" ELSE "404")
        \* the unprotect of a branch that is not protected answers 404
        unpcall  == Call("UnprotectRepositoryBranches", project.ID, b.Name, 0, 0,
                         IF ufailed THEN "error" ELSE IF cur.present THEN "ok" ELSE "404")
        procall  == Call("ProtectRepositoryBranches", project.ID, b.Name,
                         Value(b.PushAccessLevel), Value(b.MergeAccessLevel),
                         IF pfailed THEN "error" ELSE "ok")
        gn       == IF gfailed THEN 1 ELSE 0
        rem1     == [rem EXCEPT !.protected[project.ID][b.Name] = Unprotected]
        rem2     == [rem EXCEPT !.protected[project.ID][b.Name] =
                        [present |-> TRUE,
                         push  |-> <<Value(b.PushAccessLevel)>>,
                         merge |-> <<Value(b.MergeAccessLevel)>>]]
    IN  IF matched \/ dry
        THEN Result(FALSE, FALSE, rem, <<getcall>>, gn)
        ELSE IF ufailed
        THEN \* err != nil && (resp == nil || resp.StatusCode != http.StatusNotFound)
             Result(TRUE, FALSE, rem, <<getcall, unpcall>>, gn + 1)
        ELSE IF pfailed
        THEN Result(TRUE, FALSE, rem1, <<getcall, unpcall, procall>>, gn + 1)
        ELSE Result(FALSE, FALSE, rem2, <<getcall, unpcall, procall>>, gn)

\* the call sites of ensureDefaultBranch and of the i-th iteration
DefaultBranchSites == {<<"GetBranch", 0>>, <<"CreateBranch", 0>>}
BranchSites(i) ==
    {"GetProtectedBranch", "UnprotectRepositoryBranches", "ProtectRepositoryBranches"}
    \X {i}

\* one iteration of the loop of EnsureTagsProtection: the rule t, the i-th of
\* config.ProtectedTags
ProtectTag(rem, t, i, project, dry, fail) ==
    LET cur      == rem.tags[project.ID][t.Name]
        gfailed  == <<"GetProtectedTag", i>> \in fail
        ufailed  == <<"UnprotectRepositoryTags", i>> \in fail
        pfailed  == <<"ProtectRepositoryTags", i>> \in fail
        \* GetProtectedTag answers 404 for a tag that is not protected
        geterr   == gfailed \/ ~cur.present
        matched  == /\ ~geterr
                    /\ Len(cur.create) = 1
                    /\ cur.create[1] = Value(t.CreateAccessLevel)
        getcall  == Call("GetProtectedTag", project.ID, t.Name, 0, 0,
                         IF gfailed THEN "error" ELSE IF cur.present THEN "ok" ELSE "404")
        unpcall  == Call("UnprotectRepositoryTags", project.ID, t.Name, 0, 0,
                         IF ufailed THEN "error" ELSE IF cur.present THEN "ok" ELSE "404")
        procall  == Call("ProtectRepositoryTags", project.ID, t.Name,
                         Value(t.CreateAccessLevel), 0,
                         IF pfailed THEN "error" ELSE "ok")
        gn       == IF gfailed THEN 1 ELSE 0
        rem1     == [rem EXCEPT !.tags[project.ID][t.Name] = UnprotectedTag]
        rem2     == [rem EXCEPT !.tags[project.ID][t.Name] =
                        ProtectedTag(<<Value(t.CreateAccessLevel)>>)]
    IN  IF matched \/ dry
        THEN Result(FALSE, FALSE, rem, <<getcall>>, gn)
        ELSE IF ufailed
        THEN Result(TRUE, FALSE, rem, <<getcall, unpcall>>, gn + 1)
        ELSE IF pfailed
        THEN Result(TRUE, FALSE, rem1, <<getcall, unpcall, procall>>, gn + 1)
        ELSE Result(FALSE, FALSE, rem2, <<getcall, unpcall, procall>>, gn)

TagSites(i) ==
    {"GetProtectedTag", "UnprotectRepositoryTags", "ProtectRepositoryTags"} \X {i}

----------------------------------------------------------------------------
(* Project settings and approval settings *)

\* gitlab.Project, cut to one field of each kind: the id, which no patch can
\* declare, a string and a boolean that gitlab.EditProjectOptions can declare
ProjectFields == {"id", "default_branch", "wiki_enabled"}
ZeroProject == [id |-> 0, default_branch |-> "", wiki_enabled |-> FALSE]

\* gitlab.ProjectApprovals, cut to an integer and a boolean, both of which
\* gitlab.ChangeApprovalConfigurationOptions can declare
ApprovalFields == {"approvals_before_merge", "reset_approvals_on_push"}
ZeroApprovals == [approvals_before_merge |-> 0, reset_approvals_on_push |-> FALSE]

\* a snapshot map entry: the pointer stored under a project path
Snapshot(v) == [isNil |-> FALSE, val |-> v]
Put(m, k, v) == (k :> v) @@ m

\* json.Marshal of the options (the declared fields only, the others are
\* omitted) and json.Unmarshal into the full object (an absent field keeps its
\* zero value)
convertEditProjectOptionsToProject(current) ==
    [f \in ProjectFields |->
        IF f \in current.decl THEN current.val[f] ELSE ZeroProject[f]]

convertChangeApprovalConfigurationOptionsToProjectApprovals(current) ==
    [f \in ApprovalFields |->
        IF f \in current.decl THEN current.val[f] ELSE ZeroApprovals[f]]

\* diff.Diff on two objects of one struct type: an "update" change for every
\* field whose values differ
Diff(a, b) == {[Type |-> "update", Path |-> f] : f \in {g \in DOMAIN a : a[g] # b[g]}}

\* ProjectManager.willChangeProjectSettings(current, changes)
willChangeProjectSettings(current, changes) ==
    \E change \in Diff(current, changes) : change.Type = "update"

\* ProjectManager.willChangeApprovalSettings(current, changes)
willChangeApprovalSettings(current, changes) ==
    \E change \in Diff(current, changes) : change.Type = "update"

\* the effect of projectsClient.EditProject / ChangeApprovalConfiguration on the
\* server: the declared fields take the declared values
ApplyPatch(obj, patch) ==
    [f \in DOMAIN obj |-> IF f \in patch.decl THEN patch.val[f] ELSE obj[f]]

SettingsResult(err, rem, cs, nfail, sn) ==
    [err |-> err, panic |-> FALSE, rem |-> rem, calls |-> cs, nfail |-> nfail,
     snap |-> sn]

\* ProjectManager.UpdateProjectSettings(project, dryrun)
UpdateProjectSettings(rem, cfg, sn, project, dry, fail) ==
    LET path     == project.PathWithNamespace
        g1failed == <<"GetProject", 1>> \in fail
        g2failed == <<"GetProject", 2>> \in fail
        efailed  == <<"EditProject", 0>> \in fail
        get1call == Call("GetProject", project.ID, "", 1, 0,
                         IF g1failed THEN "error" ELSE "ok")
        get2call == Call("GetProject", project.ID, "", 2, 0,
                         IF g2failed THEN "error" ELSE "ok")
        editcall == Call("EditProject", project.ID, "", 0, 0,
                         IF efailed THEN "error" ELSE "ok")
        projectSettings  == rem.settings[project.ID]
        sn1      == [sn EXCEPT !.ProjectSettingsOriginal =
                                  Put(@, path, Snapshot(projectSettings))]
        settingsToChange == convertEditProjectOptionsToProject(cfg.ProjectSettings)
        rem1     == [rem EXCEPT !.settings[project.ID] =
                                  ApplyPatch(@, cfg.ProjectSettings)]
        issued   == IF dry THEN <<get1call>> ELSE <<get1call, editcall>>
        remAfter == IF dry THEN rem ELSE rem1
    IN  IF ~cfg.ProjectSettings.present
        THEN SettingsResult(FALSE, rem, <<>>, 0, sn)
        ELSE IF g1failed
        THEN SettingsResult(TRUE, rem, <<get1call>>, 1, sn)
        ELSE IF ~willChangeProjectSettings(projectSettings, settingsToChange)
        THEN SettingsResult(FALSE, rem, <<get1call>>, 0,
                 [sn1 EXCEPT !.ProjectSettingsUpdated =
                                 Put(@, path, Snapshot(projectSettings))])
        ELSE IF ~dry /\ efailed
        THEN SettingsResult(TRUE, rem, issued, 1, sn1)
        ELSE IF g2failed
        THEN SettingsResult(TRUE, remAfter, issued \o <<get2call>>, 1, sn1)
        ELSE SettingsResult(FALSE, remAfter, issued \o <<get2call>>, 0,
                 [sn1 EXCEPT !.ProjectSettingsUpdated =
                                 Put(@, path, Snapshot(remAfter.settings[project.ID]))])

\* ProjectManager.UpdateProjectApprovalSettings(project, dryrun)
UpdateProjectApprovalSettings(rem, cfg, sn, project, dry, fail) ==
    LET path     == project.PathWithNamespace
        g1failed == <<"GetApprovalConfiguration", 1>> \in fail
        g2failed == <<"GetApprovalConfiguration", 2>> \in fail
        efailed  == <<"ChangeApprovalConfiguration", 0>> \in fail
        get1call == Call("GetApprovalConfiguration", project.ID, "", 1, 0,
                         IF g1failed THEN "error" ELSE "ok")
        get2call == Call("GetApprovalConfiguration", project.ID, "", 2, 0,
                         IF g2failed THEN "error" ELSE "ok")
        editcall == Call("ChangeApprovalConfiguration", project.ID, "", 0, 0,
                         IF efailed THEN "error" ELSE "ok")
        approvalSettings == rem.approvals[project.ID]
        sn1      == [sn EXCEPT !.ApprovalSettingsOriginal =
                                  Put(@, path, Snapshot(approvalSettings))]
        settingsToChange ==
            convertChangeApprovalConfigurationOptionsToProjectApprovals(cfg.ApprovalSettings)
        rem1     == [rem EXCEPT !.approvals[project.ID] =
                                  ApplyPatch(@, cfg.ApprovalSettings)]
        issued   == IF dry THEN <<get1call>> ELSE <<get1call, editcall>>
        remAfter == IF dry THEN rem ELSE rem1
    IN  IF ~cfg.ApprovalSettings.present
        THEN SettingsResult(FALSE, rem, <<>>, 0, sn)
        ELSE IF g1failed
        THEN SettingsResult(TRUE, rem, <<get1call>>, 1, sn)
        ELSE IF ~willChangeApprovalSettings(approvalSettings, settingsToChange)
        THEN SettingsResult(FALSE, rem, <<get1call>>, 0,
                 [sn1 EXCEPT !.ApprovalSettingsUpdated =
                                 Put(@, path, Snapshot(approvalSettings))])
        ELSE IF ~dry /\ efailed
        THEN SettingsResult(TRUE, rem, issued, 1, sn1)
        ELSE IF g2failed
        THEN SettingsResult(TRUE, remAfter, issued \o <<get2call>>, 1, sn1)
        ELSE SettingsResult(FALSE, remAfter, issued \o <<get2call>>, 0,
                 [sn1 EXCEPT !.ApprovalSettingsUpdated =
                                 Put(@, path, Snapshot(remAfter.approvals[project.ID]))])

SettingsSites == {<<"GetProject", 1>>, <<"GetProject", 2>>, <<"EditProject", 0>>}
ApprovalSites == {<<"GetApprovalConfiguration", 1>>, <<"GetApprovalConfiguration", 2>>,
                  <<"ChangeApprovalConfiguration", 0>>}

----------------------------------------------------------------------------
(* The compliance report *)

\* the projects with a recorded project-settings snapshot, the keys the
\* reports loop over
ReportedProjects(sn) == DOMAIN sn.ProjectSettingsOriginal

\* the loops of GenerateComplianceReport and GenerateComplianceEmail read a field
\* of the recorded snapshot for every mandatory setting: reflect's Elem() of a
\* nil pointer has no fields, and FieldByName on it panics
ReportPanics(cfg, sn) ==
    \E name \in ReportedProjects(sn) :
        \/ /\ cfg.Compliance.Mandatory.approval_settings # {}
           /\ sn.ApprovalSettingsOriginal[name].isNil
        \/ /\ cfg.Compliance.Mandatory.project_settings # {}
           /\ sn.ProjectSettingsOriginal[name].isNil

\* the setting names of the model, in the order of sort.Strings
SortedSettings ==
    <<"approvals_before_merge", "default_branch", "id", "no_such_setting",
      "reset_approvals_on_push", "wiki_enabled">>

\* strcase.ToCamel(setting)
ToCamel(setting) ==
    CASE setting = "approvals_before_merge" -> "ApprovalsBeforeMerge"
      [] setting = "default_branch" -> "DefaultBranch"
      [] setting = "id" -> "Id"
      [] setting = "no_such_setting" -> "NoSuchSetting"
      [] setting = "reset_approvals_on_push" -> "ResetApprovalsOnPush"
      [] setting = "wiki_enabled" -> "WikiEnabled"

\* the names of the fields in gitlab.Project and gitlab.ProjectApprovals
GoName ==
    [id |-> "ID", default_branch |-> "DefaultBranch", wiki_enabled |-> "WikiEnabled",
     approvals_before_merge |-> "ApprovalsBeforeMerge",
     reset_approvals_on_push |-> "ResetApprovalsOnPush"]

\* structure.Elem().FieldByName(name) on a struct with the given fields: the
\* field of that name, or none (a field that is not valid)
FieldByName(fields, name) == {f \in fields : GoName[f] = name}

\* fmt's %v of the value v of field f
Format(f, v) ==
    CASE f \in {"wiki_enabled", "reset_approvals_on_push"} ->
             IF v THEN "true" ELSE "false"
      [] f \in {"id", "approvals_before_merge"} -> ToString(v)
      [] OTHER -> v

\* the fields of the object a subsection is about, and its recorded snapshots
SubsectionFields(subsection) ==
    IF subsection = "approval_settings" THEN ApprovalFields ELSE ProjectFields
SubsectionOriginal(sn, subsection) ==
    IF subsection = "approval_settings"
    THEN sn.ApprovalSettingsOriginal ELSE sn.ProjectSettingsOriginal

\* the value printed for a setting of a project whose snapshot is there
SettingValue(subsection, object, setting) ==
    LET field == FieldByName(SubsectionFields(subsection), ToCamel(setting))
    IN  IF field # {}
        THEN LET f == CHOOSE g \in field : TRUE IN Format(f, object[f])
        ELSE "NOT VALID SETTING"

\* one printed line of the report, without the mandated value that follows a
\* value differing from it
Line(name, subsection, setting, value) ==
    [project |-> name, subsection |-> subsection, setting |-> setting, value |-> value,
     to |-> ""]

\* the inner loop reads the snapshot of the project for every setting of the
\* subsection: it crashes at the first one when the snapshot is a nil pointer
SubsectionPanics(cfg, sn, name, subsection) ==
    /\ cfg.Compliance.Mandatory[subsection] # {}
    /\ SubsectionOriginal(sn, subsection)[name].isNil

SubsectionLines(cfg, sn, name, subsection) ==
    LET settings == SelectSeq(SortedSettings,
                              LAMBDA t : t \in cfg.Compliance.Mandatory[subsection])
    IN  IF SubsectionPanics(cfg, sn, name, subsection)
        THEN <<>>
        ELSE [i \in DOMAIN settings |->
                 Line(name, subsection, settings[i],
                      SettingValue(subsection,
                                   SubsectionOriginal(sn, subsection)[name].val,
                                   settings[i]))]

\* the lines of one project: the subsections in sorted order, up to a crash
ProjectLines(cfg, sn, name) ==
    SubsectionLines(cfg, sn, name, "approval_settings")
    \o (IF SubsectionPanics(cfg, sn, name, "approval_settings")
        THEN <<>> ELSE SubsectionLines(cfg, sn, name, "project_settings"))

ProjectPanics(cfg, sn, name) ==
    \/ SubsectionPanics(cfg, sn, name, "approval_settings")
    \/ SubsectionPanics(cfg, sn, name, "project_settings")

\* sort.Strings on the project paths
PathLess(a, b) == a[1] < b[1] \/ (a[1] = b[1] /\ a[2] < b[2])

RECURSIVE SortedNames(_)

SortedNames(names) ==
    IF names = {} THEN <<>>
    ELSE LET first == CHOOSE n \in names : \A o \in names \ {n} : PathLess(n, o)
         IN  <<first>> \o SortedNames(names \ {first})

RECURSIVE ReportLines(_, _, _)

\* the loop over the sorted project names, up to a crash
ReportLines(cfg, sn, names) ==
    IF names = <<>> THEN <<>>
    ELSE ProjectLines(cfg, sn, Head(names))
         \o (IF ProjectPanics(cfg, sn, Head(names))
             THEN <<>> ELSE ReportLines(cfg, sn, Tail(names)))

\* ProjectManager.GenerateComplianceReport(): what it prints, and whether it
\* crashes on the way
GenerateComplianceReport(cfg, sn) ==
    [panic |-> ReportPanics(cfg, sn),
     lines |-> ReportLines(cfg, sn, SortedNames(ReportedProjects(sn)))]

----------------------------------------------------------------------------
(* The change log *)

\* strcase.ToSnake(name), on the names of the fields
ToSnake(name) ==
    CASE name = "ApprovalsBeforeMerge" -> "approvals_before_merge"
      [] name = "DefaultBranch" -> "default_branch"
      [] name = "ID" -> "id"
      [] name = "ResetApprovalsOnPush" -> "reset_approvals_on_push"
      [] name = "WikiEnabled" -> "wiki_enabled"

\* one printed line of the change log: setting: "From" => "To"
ChangeLine(name, subsection, setting, from, to) ==
    [Line(name, subsection, setting, from) EXCEPT !.to = to]

\* diff.Diff of an Original and an Updated map, for the key name, as the change
\* log prints it: a project with both snapshots has one "update" change for
\* every field whose values differ, From the original value To the updated one;
\* a project whose Updated snapshot was never recorded has one "delete" change
\* of the whole entry, whose path ends with the project path
DiffLog(original, updated, name, subsection) ==
    IF name \notin DOMAIN original
    THEN <<>>
    ELSE IF name \notin DOMAIN updated
    THEN <<ChangeLine(name, subsection, "(project path)", "(snapshot)", "<nil>")>>
    ELSE LET changes  == Diff(original[name].val, updated[name].val)
             changed  == {change.Path : change \in changes}
             settings == SelectSeq(SortedSettings,
                            LAMBDA t : \E f \in changed : ToSnake(GoName[f]) = t)
         IN  [i \in DOMAIN settings |->
                LET f == CHOOSE g \in changed : ToSnake(GoName[g]) = settings[i]
                IN  ChangeLine(name, subsection, settings[i],
                               Format(f, original[name].val[f]),
                               Format(f, updated[name].val[f]))]

RECURSIVE ChangeLogLines(_, _)

\* the loop over the sorted project names of the change log, the subsections of
\* a project in sorted order
ChangeLogLines(sn, names) ==
    IF names = <<>> THEN <<>>
    ELSE DiffLog(sn.ApprovalSettingsOriginal, sn.ApprovalSettingsUpdated,
                 Head(names), "approval_settings")
         \o DiffLog(sn.ProjectSettingsOriginal, sn.ProjectSettingsUpdated,
                    Head(names), "project_settings")
         \o ChangeLogLines(sn, Tail(names))

\* ProjectManager.GenerateChangeLogReport(): the lines it prints; none stands for
\* "No changes discovered."
GenerateChangeLogReport(sn) ==
    ChangeLogLines(sn, SortedNames(DOMAIN sn.ApprovalSettingsOriginal
                                   \cup DOMAIN sn.ProjectSettingsOriginal))

----------------------------------------------------------------------------
(* The commands *)

\* SetError with the state dropped
SetErrorDropped(cfg, state) == cfg

\* ProjectManager.SetError(state)
SetError(cfg, state) == [cfg EXCEPT !.Error = state]

\* ProjectManager.GetError()
GetError(cfg) == cfg.Error

\* one per-project operation of the command loop and what it returned
Op(op, project, err) == [op |-> op, project |-> project.ID, err |-> err]

\* the project the loop is at
Current == projects[index]

\* where the loop goes after the last operation on the project at index
AfterProject(first, last) == IF index < Len(projects) THEN first ELSE last

\* compliance: manager.ComplianceReady(), fatal without a compliance section
ComplianceReady ==
    /\ pc = "ready"
    /\ pc' = IF config.Compliance.present THEN "getprojects" ELSE "fatal"
    /\ UNCHANGED <<cmd, dryrun, config, remote, calls, ops, projects, index, snap,
                   faults, listGroupProjectOps, rule, groupID, listings, report>>

\* projects, err := manager.GetProjects(), its first part: the group is
\* resolved; fatal on an error
RunResolveGroup ==
    /\ pc = "getprojects"
    /\ \E fail \in FaultSets(({"ListSubgroups"} \X (1..MaxSegs)) \cup {<<"GetGroup", 0>>},
                             MaxFaults - faults) :
          LET r == ResolveGroup(remote, config, fail)
          IN  /\ calls' = calls \o r.calls
              /\ faults' = faults + r.nfail
              /\ groupID' = r.id
              /\ pc' = IF r.err THEN "fatal" ELSE "listing"
    /\ projects' = <<>>
    /\ UNCHANGED <<cmd, dryrun, config, remote, ops, index, snap, listGroupProjectOps,
                   rule, listings, report>>

\* where a command goes with the projects repos
AfterGetProjects(repos) ==
    IF repos = <<>>
    THEN (IF cmd = "sync" THEN "report" ELSE "creport")
    ELSE (IF cmd = "sync" THEN "branches" ELSE "fetch")

\* GetProjects, one iteration of its pagination loop; fatal on an error, and on
\* to the loop of the command after the last page
RunListPage ==
    /\ pc = "listing"
    /\ \E fail \in FaultSets({<<"ListGroupProjects", 0>>}, MaxFaults - faults) :
          LET r     == ListPage(remote, config, groupID, listGroupProjectOps.Page,
                                fail # {})
              repos == projects \o r.kept
          IN  /\ calls' = Append(calls, r.call)
              /\ faults' = faults + Cardinality(fail)
              /\ listGroupProjectOps' = [listGroupProjectOps EXCEPT !.Page = r.Page]
              /\ projects' = IF r.err THEN <<>> ELSE repos
              /\ listings' = IF r.break /\ ~r.err THEN Append(listings, repos)
                             ELSE listings
              /\ pc' = IF r.err THEN "fatal"
                       ELSE IF r.break THEN AfterGetProjects(repos) ELSE "listing"
    /\ index' = 1
    /\ UNCHANGED <<cmd, dryrun, config, remote, ops, snap, rule, groupID, report>>

\* sync: manager.EnsureBranchesAndProtection(project, env.Dryrun), its first
\* step: ensureDefaultBranch. The handler returns at once on an error, and after
\* this step when no rule is declared.
RunEnsureDefaultBranch ==
    /\ pc = "branches"
    /\ \E fail \in FaultSets(DefaultBranchSites, MaxFaults - faults) :
          LET r    == ensureDefaultBranch(remote, config, Current, dryrun, fail)
              done == r.err \/ config.ProtectedBranches = <<>>
          IN  /\ remote' = r.rem
              /\ calls' = calls \o r.calls
              /\ faults' = faults + r.nfail
              /\ pc' = IF r.panic THEN "panic" ELSE IF done THEN "settings" ELSE "rule"
              /\ ops' = IF ~r.panic /\ done
                        THEN Append(ops, Op("EnsureBranchesAndProtection", Current, r.err))
                        ELSE ops
              /\ config' = IF r.err /\ ~r.panic THEN SetError(config, TRUE) ELSE config
    /\ rule' = 1
    /\ UNCHANGED <<cmd, dryrun, projects, index, snap, listGroupProjectOps, groupID,
                   listings, report>>

\* sync: one iteration of the loop of EnsureBranchesAndProtection over the
\* declared rules; the handler returns on an error and after the last rule
RunProtectBranch ==
    /\ pc = "rule"
    /\ \E fail \in FaultSets(BranchSites(rule), MaxFaults - faults) :
          LET r    == ProtectBranch(remote, config.ProtectedBranches[rule], rule,
                                    Current, dryrun, fail)
              done == r.err \/ rule = Len(config.ProtectedBranches)
          IN  /\ remote' = r.rem
              /\ calls' = calls \o r.calls
              /\ faults' = faults + r.nfail
              /\ pc' = IF done THEN "settings" ELSE "rule"
              /\ rule' = IF done THEN rule ELSE rule + 1
              /\ ops' = IF done
                        THEN Append(ops, Op("EnsureBranchesAndProtection", Current, r.err))
                        ELSE ops
              /\ config' = IF r.err THEN SetError(config, TRUE) ELSE config
    /\ UNCHANGED <<cmd, dryrun, projects, index, snap, listGroupProjectOps, groupID,
                   listings, report>>

\* one iteration of the loop of EnsureTagsProtection over the declared tag rules,
\* on the project at index; the handler returns on an error and after the last
\* rule. Neither command calls the handler.
RunProtectTag ==
    /\ pc = "tag"
    /\ \E fail \in FaultSets(TagSites(rule), MaxFaults - faults) :
          LET r    == ProtectTag(remote, config.ProtectedTags[rule], rule,
                                 Current, dryrun, fail)
              done == r.err \/ rule = Len(config.ProtectedTags)
          IN  /\ remote' = r.rem
              /\ calls' = calls \o r.calls
              /\ faults' = faults + r.nfail
              /\ pc' = IF done THEN "returned" ELSE "tag"
              /\ rule' = IF done THEN rule ELSE rule + 1
              /\ ops' = IF done
                        THEN Append(ops, Op("EnsureTagsProtection", Current, r.err))
                        ELSE ops
    /\ UNCHANGED <<cmd, dryrun, config, projects, index, snap, listGroupProjectOps,
                   groupID, listings, report>>

\* sync: manager.UpdateProjectSettings(project, env.Dryrun)
RunUpdateProjectSettings ==
    /\ pc = "settings"
    /\ \E fail \in FaultSets(SettingsSites, MaxFaults - faults) :
          LET r == UpdateProjectSettings(remote, config, snap, Current, dryrun, fail)
          IN  /\ remote' = r.rem
              /\ calls' = calls \o r.calls
              /\ faults' = faults + r.nfail
              /\ snap' = r.snap
              /\ ops' = Append(ops, Op("UpdateProjectSettings", Current, r.err))
              /\ config' = IF r.err THEN SetError(config, TRUE) ELSE config
    /\ pc' = "approvals"
    /\ UNCHANGED <<cmd, dryrun, projects, index, listGroupProjectOps, rule, groupID,
                   listings, report>>

\* sync: manager.UpdateProjectApprovalSettings(project, env.Dryrun), the last
\* operation of the loop body
RunUpdateProjectApprovalSettings ==
    /\ pc = "approvals"
    /\ \E fail \in FaultSets(ApprovalSites, MaxFaults - faults) :
          LET r == UpdateProjectApprovalSettings(remote, config, snap, Current, dryrun, fail)
          IN  /\ remote' = r.rem
              /\ calls' = calls \o r.calls
              /\ faults' = faults + r.nfail
              /\ snap' = r.snap
              /\ ops' = Append(ops, Op("UpdateProjectApprovalSettings", Current, r.err))
              /\ config' = IF r.err THEN SetError(config, TRUE) ELSE config
    /\ pc' = AfterProject("branches", "report")
    /\ index' = index + 1
    /\ UNCHANGED <<cmd, dryrun, projects, listGroupProjectOps, rule, groupID, listings, report>>

\* sync: manager.GenerateChangeLogReport(), which returns nil
RunGenerateChangeLogReport ==
    /\ pc = "report"
    /\ report' = GenerateChangeLogReport(snap)
    /\ pc' = "check"
    /\ UNCHANGED <<cmd, dryrun, config, remote, calls, ops, projects, index, snap,
                   faults, listGroupProjectOps, rule, groupID, listings>>

\* the loop body enforcing what it finds: after the two fetches the declared
\* project settings are set on the project
RunComplianceFetchEnforcing ==
    /\ pc = "fetch"
    /\ LET path == Current.PathWithNamespace
           edit == config.ProjectSettings.present
       IN  /\ calls' = calls \o <<Call("GetApprovalConfiguration", Current.ID, "", 1, 0, "ok"),
                                   Call("GetProject", Current.ID, "", 1, 0, "ok")>>
                            \o (IF edit
                                THEN <<Call("EditProject", Current.ID, "", 0, 0, "ok")>>
                                ELSE <<>>)
           /\ remote' = IF edit
                        THEN [remote EXCEPT !.settings[Current.ID] =
                                               ApplyPatch(@, config.ProjectSettings)]
                        ELSE remote
           /\ snap' = [snap EXCEPT
                         !.ApprovalSettingsOriginal =
                             Put(@, path, Snapshot(remote.approvals[Current.ID])),
                         !.ProjectSettingsOriginal =
                             Put(@, path, Snapshot(remote.settings[Current.ID]))]
           /\ ops' = ops \o <<Op("GetProjectApprovalSettings", Current, FALSE),
                               Op("GetProjectSettings", Current, FALSE)>>
    /\ pc' = AfterProject("fetch", "creport")
    /\ index' = index + 1
    /\ UNCHANGED <<cmd, dryrun, config, faults, projects, listGroupProjectOps, rule,
                   groupID, listings, report>>

\* compliance: the loop body, the two fetches and the two recorded snapshots
RunComplianceFetch ==
    /\ pc = "fetch"
    /\ \E fail \in FaultSets({<<"GetApprovalConfiguration", 1>>, <<"GetProject", 1>>},
                             MaxFaults - faults) :
          LET afailed == <<"GetApprovalConfiguration", 1>> \in fail
              pfailed == <<"GetProject", 1>> \in fail
              path    == Current.PathWithNamespace
              approvalSettings ==
                  IF afailed THEN [isNil |-> TRUE, val |-> ZeroApprovals]
                  ELSE Snapshot(remote.approvals[Current.ID])
              projectSettings ==
                  IF pfailed THEN [isNil |-> TRUE, val |-> ZeroProject]
                  ELSE Snapshot(remote.settings[Current.ID])
          IN  /\ calls' = calls \o <<Call("GetApprovalConfiguration", Current.ID, "", 1, 0,
                                           IF afailed THEN "error" ELSE "ok"),
                                      Call("GetProject", Current.ID, "", 1, 0,
                                           IF pfailed THEN "error" ELSE "ok")>>
              /\ faults' = faults + Cardinality(fail)
              /\ snap' = [snap EXCEPT
                            !.ApprovalSettingsOriginal = Put(@, path, approvalSettings),
                            !.ProjectSettingsOriginal = Put(@, path, projectSettings)]
              /\ ops' = ops \o <<Op("GetProjectApprovalSettings", Current, afailed),
                                  Op("GetProjectSettings", Current, pfailed)>>
              /\ config' = IF afailed \/ pfailed THEN SetError(config, TRUE) ELSE config
    /\ pc' = AfterProject("fetch", "creport")
    /\ index' = index + 1
    /\ UNCHANGED <<cmd, dryrun, remote, projects, listGroupProjectOps, rule, groupID,
                   listings, report>>

\* compliance: manager.GenerateComplianceReport()
RunGenerateComplianceReport ==
    /\ pc = "creport"
    /\ LET r == GenerateComplianceReport(config, snap)
       IN  /\ report' = r.lines
           /\ pc' = IF r.panic THEN "panic" ELSE "email"
    /\ UNCHANGED <<cmd, dryrun, config, remote, calls, ops, projects, index, snap,
                   faults, listGroupProjectOps, rule, groupID, listings>>

\* compliance: manager.GenerateComplianceEmail(); SendEmail is fatal when the
\* SMTP dialogue fails
RunGenerateComplianceEmail ==
    /\ pc = "email"
    /\ \E fail \in FaultSets({<<"SendEmail", 0>>}, MaxFaults - faults) :
          LET send   == config.Compliance.Email
              failed == send /\ <<"SendEmail", 0>> \in fail
          IN  /\ calls' = IF send THEN Append(calls, Call("SendEmail", 0, "", 0, 0,
                                                       IF failed THEN "error" ELSE "ok"))
                          ELSE calls
              /\ faults' = faults + (IF failed THEN 1 ELSE 0)
              /\ pc' = IF failed THEN "fatal" ELSE "check"
    /\ UNCHANGED <<cmd, dryrun, config, remote, ops, projects, index, snap,
                   listGroupProjectOps, rule, groupID, listings, report>>

\* both commands: if manager.GetError() { logger.Fatal(...) }
RunGetError ==
    /\ pc = "check"
    /\ pc' = IF GetError(config) THEN "failed" ELSE "done"
    /\ UNCHANGED <<cmd, dryrun, config, remote, calls, ops, projects, index, snap,
                   faults, listGroupProjectOps, rule, groupID, listings, report>>

Next ==
    \/ ComplianceReady
    \/ RunResolveGroup
    \/ RunListPage
    \/ RunEnsureDefaultBranch
    \/ RunProtectBranch
    \/ RunUpdateProjectSettings
    \/ RunUpdateProjectApprovalSettings
    \/ RunGenerateChangeLogReport
    \/ RunComplianceFetch
    \/ RunGenerateComplianceReport
    \/ RunGenerateComplianceEmail
    \/ RunGetError

----------------------------------------------------------------------------
(* Configurations and remote states the runs start from *)

\* the groups the server may hold: a root group a with the subgroups a/b, a/b/c
\* and a/c, in listing order
GroupUniverse ==
    << [ID |-> 1, Path |-> "a", Parent |-> 0],
       [ID |-> 2, Path |-> "b", Parent |-> 1],
       [ID |-> 3, Path |-> "c", Parent |-> 2],
       [ID |-> 4, Path |-> "c", Parent |-> 1] >>

\* the group trees: the root and any subgroups whose parents exist
Forests ==
    {SelectSeqBy(GroupUniverse, S) :
        S \in {T \in SUBSET GroupsOf([groups |-> GroupUniverse]) :
                  /\ GroupUniverse[1] \in T
                  /\ \A g \in T : g.Parent = 0 \/ \E h \in T : h.ID = g.Parent}}

Segments == {"a", "b", "c"}

\* the split group_name values: 1..MaxSegs segments
GroupNames == UNION {[1..n -> Segments] : n \in 1..MaxSegs}

\* the projects of the server: nproj projects in every group; project k of
\* group g has the id 10 g + k and the path <<g, k>>
ProjectsOfGroups(groups, nproj) ==
    [i \in 1..(Len(groups) * nproj) |->
        LET g == groups[((i - 1) \div nproj) + 1]
            k == ((i - 1) % nproj) + 1
        IN  [ID |-> 10 * g.ID + k, Group |-> g.ID, PathWithNamespace |-> <<g.ID, k>>]]

BranchNames == {"main", "develop"}
TagNames == {"v"}

\* a server state: every project starts with the protections prot, the branches
\* br, the settings st (under its own id) and the approval settings ap
MkRemote(groups, nproj, prot, br, st, ap) ==
    LET projs == ProjectsOfGroups(groups, nproj)
        ids   == {projs[i].ID : i \in DOMAIN projs}
    IN  [groups    |-> groups,
         projects  |-> projs,
         protected |-> [id \in ids |-> prot],
         tags      |-> [id \in ids |-> [t \in TagNames |-> UnprotectedTag]],
         branches  |-> [id \in ids |-> br],
         settings  |-> [id \in ids |-> [st EXCEPT !.id = id]],
         approvals |-> [id \in ids |-> ap],
         perPage   |-> PerPage]

NoPatch == [present |-> FALSE, decl |-> {}]
ProjectPatch(decl, db, wiki) ==
    [present |-> TRUE, decl |-> decl,
     val |-> [default_branch |-> db, wiki_enabled |-> wiki]]
ApprovalPatch(decl, n, reset) ==
    [present |-> TRUE, decl |-> decl,
     val |-> [approvals_before_merge |-> n, reset_approvals_on_push |-> reset]]

\* a configuration
MkConfig(name, cdb, rules, tags, ps, as, compliance) ==
    [GroupName |-> name, CreateDefaultBranch |-> cdb, Error |-> FALSE,
     ProjectWhitelist |-> <<>>, ProjectBlacklist |-> <<>>,
     ProtectedBranches |-> rules, ProtectedTags |-> tags,
     ProjectSettings |-> ps, ApprovalSettings |-> as, Compliance |-> compliance]

Compliance(present, as, ps, email) ==
    [present |-> present, Email |-> email,
     Mandatory |-> [approval_settings |-> as, project_settings |-> ps]]

Rule(name, push, merge) ==
    [Name |-> name, PushAccessLevel |-> push, MergeAccessLevel |-> merge]

Protected(push, merge) == [present |-> TRUE, push |-> push, merge |-> merge]

\* the page listGroupProjectOps starts with: none set, or the first
FirstPages == {0, 1}

\* the state of a command that is about to run
InitWith(cmds, dryruns, configs, remotes) ==
    /\ cmd \in cmds
    /\ dryrun \in dryruns
    /\ config \in configs
    /\ remote \in remotes
    /\ calls = <<>>
    /\ ops = <<>>
    /\ projects = <<>>
    /\ index = 1
    /\ pc = IF cmd = "sync" THEN "getprojects" ELSE "ready"
    /\ snap = [ApprovalSettingsOriginal |-> <<>>, ApprovalSettingsUpdated |-> <<>>,
               ProjectSettingsOriginal |-> <<>>, ProjectSettingsUpdated |-> <<>>]
    /\ faults = 0
    /\ listGroupProjectOps \in {[Page |-> page] : page \in FirstPages}
    /\ rule = 1
    /\ groupID = 0
    /\ listings = <<>>
    /\ report = <<>>

DefaultSettings == [id |-> 0, default_branch |-> "master", wiki_enabled |-> TRUE]
DefaultApprovals == [approvals_before_merge |-> 1, reset_approvals_on_push |-> TRUE]

RootOnly == SelectSeqBy(GroupUniverse, {GroupUniverse[1]})

\* a compliance run on one project, with nothing mandatory
InitPlainCompliance ==
    InitWith({"compliance"}, {FALSE},
             {MkConfig(<<"a">>, FALSE, <<>>, <<>>, NoPatch, NoPatch,
                       Compliance(TRUE, {}, {}, FALSE))},
             {MkRemote(RootOnly, 1, [b \in BranchNames |-> Unprotected], {"master"},
                       DefaultSettings, DefaultApprovals)})

\* a sync run on one project, with one declared rule
InitPlainSync ==
    InitWith({"sync"}, {FALSE},
             {MkConfig(<<"a">>, FALSE, <<Rule("main", "maintainer", "developer")>>, <<>>,
                       NoPatch, NoPatch, Compliance(FALSE, {}, {}, FALSE))},
             {MkRemote(RootOnly, 1, [b \in BranchNames |-> Unprotected], {"master"},
                       DefaultSettings, DefaultApprovals)})

\* group resolution: every group path on every group tree, one project a group
InitResolve ==
    \/ InitWith({"sync", "compliance"}, {FALSE},
                {MkConfig(name, FALSE, <<>>, <<>>, NoPatch, NoPatch,
                          Compliance(TRUE, {}, {}, FALSE)) : name \in GroupNames},
                {MkRemote(groups, 1, [b \in BranchNames |-> Unprotected], {"master"},
                          DefaultSettings, DefaultApprovals) : groups \in Forests})
    \/ InitPlainSync

SpecResolve == InitResolve /\ [][Next]_vars

\* the declared rules and the protections found on the server
RuleSet ==
    {Rule("main", "maintainer", "developer"), Rule("main", "developer", "developer"),
     Rule("main", "noone", "maintainer"), Rule("develop", "developer", "developer")}

RuleLists == UNION {[1..n -> RuleSet] : n \in 0..MaxRules}

MainProtections ==
    {Unprotected,
     Protected(<<MaintainerPermissions>>, <<DeveloperPermissions>>),
     Protected(<<DeveloperPermissions>>, <<DeveloperPermissions>>),
     Protected(<<DeveloperPermissions, MaintainerPermissions>>, <<DeveloperPermissions>>),
     Protected(<<>>, <<DeveloperPermissions>>),
     Protected(<<NoPermissions>>, <<MaintainerPermissions>>)}

DevelopProtections ==
    {Unprotected, Protected(<<DeveloperPermissions>>, <<DeveloperPermissions>>)}

TagRule(name, create) == [Name |-> name, CreateAccessLevel |-> create]

\* branch protection: every list of declared rules against every protection of
\* the two branches, on one project
InitBranches ==
    \/ InitWith({"sync"}, BOOLEAN,
                {MkConfig(<<"a">>, FALSE, rules, <<>>, NoPatch, NoPatch,
                          Compliance(FALSE, {}, {}, FALSE)) : rules \in RuleLists},
                {MkRemote(RootOnly, 1, [main |-> m, develop |-> d], {"master"},
                          DefaultSettings, DefaultApprovals) :
                     m \in MainProtections, d \in DevelopProtections})
    \/ InitPlainCompliance

SpecBranches == InitBranches /\ [][Next]_vars

\* the comparison of the declared roles with the levels the server reports: one
\* branch rule of every pair of roles against every protection of its branch,
\* and one tag rule of every role against every protection of its tag
Roles == {"none", "noone", "developer", "maintainer", "maintaner"}

LevelLists ==
    {<<>>, <<NoPermissions>>, <<DeveloperPermissions>>, <<MaintainerPermissions>>,
     <<DeveloperPermissions, MaintainerPermissions>>,
     <<MaintainerPermissions, MaintainerPermissions>>}

WithTags(rem, tp) ==
    [rem EXCEPT !.tags = [id \in DOMAIN rem.tags |-> [t \in TagNames |-> tp]]]

InitProtection ==
    \/ InitWith({"sync"}, BOOLEAN,
                {MkConfig(<<"a">>, FALSE, <<Rule("main", push, merge)>>, <<>>,
                          NoPatch, NoPatch, Compliance(FALSE, {}, {}, FALSE)) :
                     push \in Roles, merge \in Roles},
                {MkRemote(RootOnly, 1, [main |-> m, develop |-> Unprotected],
                          {"master"}, DefaultSettings, DefaultApprovals) :
                     m \in {Unprotected} \cup
                           {Protected(push, merge) :
                               push \in LevelLists, merge \in LevelLists}})
    \/ InitWith({"sync"}, BOOLEAN,
                {MkConfig(<<"a">>, FALSE, <<>>, <<TagRule("v", create)>>,
                          NoPatch, NoPatch, Compliance(FALSE, {}, {}, FALSE)) :
                     create \in Roles},
                {WithTags(MkRemote(RootOnly, 1, [b \in BranchNames |-> Unprotected],
                                   {"master"}, DefaultSettings, DefaultApprovals), tp) :
                     tp \in {UnprotectedTag} \cup
                            {ProtectedTag(create) : create \in LevelLists}})

\* a caller of EnsureTagsProtection: the handler is entered for the project at
\* index once the branch handler has returned
CallEnsureTagsProtection ==
    /\ pc = "settings" /\ config.ProtectedTags # <<>>
    /\ pc' = "tag"
    /\ rule' = 1
    /\ UNCHANGED <<cmd, dryrun, config, remote, calls, ops, projects, index, snap,
                   faults, listGroupProjectOps, groupID, listings, report>>

NextProtection ==
    \/ RunResolveGroup
    \/ RunListPage
    \/ RunEnsureDefaultBranch
    \/ RunProtectBranch
    \/ CallEnsureTagsProtection
    \/ RunProtectTag

SpecProtection == InitProtection /\ [][NextProtection]_vars

\* the default branch: the creation flag set or not, no project settings, project
\* settings without a default branch, with "master" and with "develop", on a
\* project that has the branch "develop" or not
InitDefaultBranch ==
    \/ InitWith({"sync"}, BOOLEAN,
                {MkConfig(<<"a">>, cdb, rules, <<>>, ps, NoPatch,
                          Compliance(FALSE, {}, {}, FALSE)) :
                     cdb \in BOOLEAN,
                     rules \in {<<>>, <<Rule("main", "maintainer", "developer")>>},
                     ps \in {NoPatch, ProjectPatch({"wiki_enabled"}, "master", TRUE),
                             ProjectPatch({"default_branch"}, "master", TRUE),
                             ProjectPatch({"default_branch"}, "develop", TRUE)}},
                {MkRemote(RootOnly, NumProjects, [b \in BranchNames |-> Unprotected],
                          br, DefaultSettings, DefaultApprovals) :
                     br \in {{"master"}, {"master", "develop"}}})
    \/ InitPlainCompliance

SpecDefaultBranch == InitDefaultBranch /\ [][Next]_vars

\* the compliance command: mandatory settings that are fields of the object of
\* their subsection and some that are not, on NumProjects projects
MandatoryApprovals ==
    {{}, {"reset_approvals_on_push"}, {"no_such_setting"},
     {"approvals_before_merge", "wiki_enabled"}}

MandatoryProject ==
    {{}, {"wiki_enabled"}, {"id"}, {"default_branch", "no_such_setting"}}

InitCompliance ==
    InitWith({"compliance"}, BOOLEAN,
             {MkConfig(<<"a">>, cdb, rules, <<>>, ps, NoPatch,
                       Compliance(TRUE, as, mps, email)) :
                  cdb \in BOOLEAN,
                  rules \in {<<>>, <<Rule("main", "maintainer", "developer")>>},
                  ps \in {NoPatch, ProjectPatch({"wiki_enabled"}, "master", FALSE)},
                  as \in MandatoryApprovals, mps \in MandatoryProject,
                  email \in BOOLEAN},
             {MkRemote(RootOnly, nproj, [b \in BranchNames |-> Unprotected], {"master"},
                       DefaultSettings, DefaultApprovals) : nproj \in 1..NumProjects})

NextCompliance ==
    \/ ComplianceReady
    \/ RunResolveGroup
    \/ RunListPage
    \/ RunComplianceFetch
    \/ RunGenerateComplianceReport
    \/ RunGenerateComplianceEmail
    \/ RunGetError

SpecCompliance == InitCompliance /\ [][NextCompliance]_vars

\* settings: every patch against the settings of the server, NumProjects projects
ProjectPatches ==
    {NoPatch} \cup
    {ProjectPatch(decl, db, wiki) :
        decl \in {{}, {"wiki_enabled"}, {"default_branch", "wiki_enabled"}},
        db \in {"master"}, wiki \in BOOLEAN}

ApprovalPatches ==
    {NoPatch} \cup
    {ApprovalPatch(decl, 1, reset) :
        decl \in {{}, {"approvals_before_merge"},
                  {"approvals_before_merge", "reset_approvals_on_push"}},
        reset \in BOOLEAN}

InitSettings ==
    \/ InitWith({"sync"}, BOOLEAN,
                {MkConfig(<<"a">>, FALSE, <<>>, <<>>, ps, as,
                          Compliance(FALSE, {}, {}, FALSE)) :
                     ps \in ProjectPatches, as \in ApprovalPatches},
                {MkRemote(RootOnly, NumProjects, [b \in BranchNames |-> Unprotected],
                          {"master"}, DefaultSettings, ap) :
                     ap \in {DefaultApprovals, ZeroApprovals}})
    \/ InitPlainCompliance
    \/ InitPlainSync

SpecSettings == InitSettings /\ [][Next]_vars

\* the order of the phases: no rule or two rules in either order, the default
\* branch to create or not, the project settings declared or not, NumProjects
\* projects
InitOrder ==
    \/ InitWith({"sync"}, BOOLEAN,
                {MkConfig(<<"a">>, cdb, rules, <<>>, ps, as,
                          Compliance(FALSE, {}, {}, FALSE)) :
                     cdb \in BOOLEAN,
                     rules \in {<<>>,
                                <<Rule("main", "maintainer", "developer"),
                                  Rule("develop", "developer", "developer")>>,
                                <<Rule("develop", "developer", "developer"),
                                  Rule("main", "maintainer", "developer")>>},
                     ps \in {NoPatch, ProjectPatch({"default_branch"}, "develop", FALSE)},
                     as \in {ApprovalPatch({"reset_approvals_on_push"}, 0, FALSE)}},
                {MkRemote(RootOnly, NumProjects, [b \in BranchNames |-> Unprotected],
                          {"master"}, DefaultSettings, DefaultApprovals)})
    \/ InitPlainCompliance

SpecOrder == InitOrder /\ [][Next]_vars

\* whole runs of both commands on NumProjects projects
Init ==
    InitWith({"sync", "compliance"}, BOOLEAN,
             {MkConfig(<<"a">>, cdb, rules, <<TagRule("v", "maintainer")>>, ps, as, cp) :
                  cdb \in BOOLEAN,
                  rules \in {<<>>, <<Rule("main", "maintainer", "developer")>>},
                  ps \in {NoPatch, ProjectPatch({"default_branch"}, "develop", FALSE)},
                  as \in {NoPatch, ApprovalPatch({"reset_approvals_on_push"}, 0, FALSE)},
                  cp \in {Compliance(FALSE, {}, {}, FALSE),
                          Compliance(TRUE, {"reset_approvals_on_push"},
                                     {"wiki_enabled"}, TRUE)}},
             {MkRemote(RootOnly, NumProjects, [main |-> m, develop |-> Unprotected],
                       {"master"}, DefaultSettings, DefaultApprovals) :
                  m \in {Unprotected,
                         Protected(<<MaintainerPermissions>>, <<DeveloperPermissions>>)}})

Spec == Init /\ [][Next]_vars

\* the project listing: every allow-list and deny-list of at most two entries,
\* never both, against a group of 0..NumProjects projects listed in pages of
\* 1..NumProjects projects
PathEntries == {<<1>>, <<2>>, <<1, 1>>, <<1, 2>>, <<2, 1>>}

EntryLists == {<<>>} \cup [1..1 -> PathEntries] \cup [1..2 -> PathEntries]

WithLists(cfg, whitelist, blacklist) ==
    [cfg EXCEPT !.ProjectWhitelist = whitelist, !.ProjectBlacklist = blacklist]

InitListing ==
    InitWith({"sync"}, {FALSE},
             {WithLists(MkConfig(<<"a">>, FALSE, <<>>, <<>>, NoPatch, NoPatch,
                                 Compliance(FALSE, {}, {}, FALSE)), l[1], l[2]) :
                  l \in {x \in EntryLists \X EntryLists : x[1] = <<>> \/ x[2] = <<>>}},
             {[MkRemote(RootOnly, n, [b \in BranchNames |-> Unprotected], {"master"},
                        DefaultSettings, DefaultApprovals) EXCEPT !.perPage = size] :
                  n \in 0..NumProjects, size \in 1..NumProjects})

\* GetProjects alone, called once
NextPaging == RunResolveGroup \/ RunListPage

SpecPaging == InitListing /\ [][NextPaging]_vars /\ WF_vars(NextPaging)

\* a further call of GetProjects in the same process
GetProjectsAgain ==
    /\ pc \in {"branches", "report"}
    /\ Len(listings) < MaxListings
    /\ pc' = "getprojects"
    /\ UNCHANGED <<cmd, dryrun, config, remote, calls, ops, projects, index, snap,
                   faults, listGroupProjectOps, rule, groupID, listings, report>>

\* GetProjects alone, called up to MaxListings times
NextListing == RunResolveGroup \/ RunListPage \/ GetProjectsAgain

SpecListing == InitListing /\ [][NextListing]_vars

----------------------------------------------------------------------------
(* Group resolution: claims *)

RECURSIVE FullPath(_, _)
\* the full path of a group of the server, root segment first
FullPath(rem, g) ==
    IF g.Parent = 0 THEN <<g.Path>>
    ELSE FullPath(rem, CHOOSE h \in GroupsOf(rem) : h.ID = g.Parent) \o <<g.Path>>

\* the server holds a group under the configured path
PathExists == \E g \in GroupsOf(remote) : FullPath(remote, g) = config.GroupName

\* GetProjects has returned
Resolved == pc \notin {"ready", "getprojects"}

Lookups == CallsTo(calls, "ListSubgroups")
Segs == Len(config.GroupName)

\* C5: when a segment of a multi-segment path matches no subgroup of the group
\* reached so far, or a subgroup listing fails, GetProjects returns an error and
\* the run ends before a project is listed.
C5_ResolutionFails ==
    (Resolved /\ Segs >= 2
       /\ (~PathExists \/ \E i \in DOMAIN Lookups : Lookups[i].resp # "ok"))
    => (pc = "fatal" /\ projects = <<>>)

\* C10 as stated: a path of N >= 2 segments takes exactly N - 1 ListSubgroups
\* lookups, a single segment none and one GetGroup.
C10_ExactlyNMinusOne ==
    Resolved =>
        /\ Segs >= 2 => Len(Lookups) = Segs - 1
        /\ Segs = 1 => Len(Lookups) = 0 /\ Len(CallsTo(calls, "GetGroup")) = 1

\* C10 amended: a path of N >= 2 segments takes one ListSubgroups lookup a level,
\* level 1 first, until a lookup fails or level N - 1 is done: at most N - 1
\* lookups, exactly N - 1 when none fails, and no GetGroup; a single segment
\* takes no ListSubgroups lookup and one GetGroup.
C10_LookupsPerLevel ==
    Resolved =>
        /\ Segs >= 2 =>
              /\ Len(Lookups) \in 1..(Segs - 1)
              /\ \A i \in DOMAIN Lookups :
                    /\ Lookups[i].a = i
                    /\ i < Len(Lookups) => Lookups[i].resp = "ok"
              /\ Last(Lookups).resp = "ok" => Len(Lookups) = Segs - 1
              /\ Len(CallsTo(calls, "GetGroup")) = 0
        /\ Segs = 1 => Len(Lookups) = 0 /\ Len(CallsTo(calls, "GetGroup")) = 1

\* a three-segment path resolved with two lookups, and the projects listed
C10_Witness ==
    /\ Resolved /\ Segs = 3 /\ Len(Lookups) = 2 /\ PathExists
    /\ projects # <<>>

----------------------------------------------------------------------------
(* Branch protection: claims *)

\* the calls a step issues
NewCalls == SubSeq(calls', Len(calls) + 1, Len(calls'))

\* the rule the loop is at, and what the server holds for its branch
RuleAt == config.ProtectedBranches[rule]
ProtectionAt == remote.protected[Current.ID][RuleAt.Name]

\* the protection on the server is the declared one: one entry an axis, of the
\* declared level
Matches(cur, b) ==
    /\ cur.present
    /\ cur.push = <<Value(b.PushAccessLevel)>>
    /\ cur.merge = <<Value(b.MergeAccessLevel)>>

\* in the log cs, one unprotect call and after it one protect call, both for the
\* branch of rule b of the project, the protect call with the declared levels
OneUnprotectThenOneProtect(cs, project, b) ==
    /\ Len(CallsTo(cs, "UnprotectRepositoryBranches")) = 1
    /\ Len(CallsTo(cs, "ProtectRepositoryBranches")) = 1
    /\ \E i, j \in DOMAIN cs :
          /\ i < j
          /\ cs[i].op = "UnprotectRepositoryBranches"
          /\ cs[i].target = project.ID /\ cs[i].name = b.Name
          /\ cs[j].op = "ProtectRepositoryBranches"
          /\ cs[j].target = project.ID /\ cs[j].name = b.Name
          /\ cs[j].a = Value(b.PushAccessLevel)
          /\ cs[j].b = Value(b.MergeAccessLevel)

\* C1 as stated: not in a dry run, a declared rule whose protection on the server
\* differs from the declared levels gets exactly one unprotect call and then
\* exactly one protect call with the declared levels.
C1_UnprotectThenProtect ==
    [][(pc = "rule" /\ ~dryrun /\ ~Matches(ProtectionAt, RuleAt))
         => OneUnprotectThenOneProtect(NewCalls, Current, RuleAt)]_vars

\* C1 amended: not in a dry run, a declared rule the loop reaches whose
\* protection on the server differs from the declared levels gets exactly one
\* unprotect call; answered with success or 404 it is followed by exactly one
\* protect call with the declared levels; failing otherwise it is followed by no
\* protect call and the handler returns an error.
C1_UnprotectThenProtectUnlessFailed ==
    [][(pc = "rule" /\ ~dryrun /\ ~Matches(ProtectionAt, RuleAt))
         => LET u == CallsTo(NewCalls, "UnprotectRepositoryBranches")
            IN  /\ Len(u) = 1
                /\ u[1].target = Current.ID /\ u[1].name = RuleAt.Name
                /\ u[1].resp \in {"ok", "404"}
                     => OneUnprotectThenOneProtect(NewCalls, Current, RuleAt)
                /\ u[1].resp = "error"
                     => /\ Len(CallsTo(NewCalls, "ProtectRepositoryBranches")) = 0
                        /\ pc' = "settings"
                        /\ Last(ops').op = "EnsureBranchesAndProtection"
                        /\ Last(ops').err
                        /\ GetError(config')]_vars

\* a branch whose unprotect call answered 404 and that is then protected with
\* push 40 and merge 30
C1_Witness ==
    /\ ~dryrun
    /\ \E i \in DOMAIN calls :
          /\ i < Len(calls)
          /\ calls[i].op = "UnprotectRepositoryBranches" /\ calls[i].resp = "404"
          /\ calls[i + 1].op = "ProtectRepositoryBranches" /\ calls[i + 1].resp = "ok"
          /\ calls[i + 1].a = MaintainerPermissions
          /\ calls[i + 1].b = DeveloperPermissions

----------------------------------------------------------------------------
(* Whole runs: claims *)

\* the remote calls that change the server
MutatingCalls ==
    {"CreateBranch", "UnprotectRepositoryBranches", "ProtectRepositoryBranches",
     "UnprotectRepositoryTags", "ProtectRepositoryTags", "EditProject",
     "ChangeApprovalConfiguration"}

\* the read calls of the sync loop
ReadCalls == {"GetBranch", "GetProtectedBranch", "GetProject", "GetApprovalConfiguration"}

\* the loop is over: the report is next, or the run has ended after it
LoopDone == pc \in {"report", "check", "done", "failed"}

\* the result the i-th project's operation op returned, when it was attempted
Attempted(i, k, op) ==
    /\ 3 * (i - 1) + k <= Len(ops)
    /\ ops[3 * (i - 1) + k].op = op
    /\ ops[3 * (i - 1) + k].project = projects[i].ID

\* every operation of every listed project was attempted, in the loop's order
AllAttempted ==
    /\ Len(ops) = 3 * Len(projects)
    /\ \A i \in DOMAIN projects :
          /\ Attempted(i, 1, "EnsureBranchesAndProtection")
          /\ Attempted(i, 2, "UpdateProjectSettings")
          /\ Attempted(i, 3, "UpdateProjectApprovalSettings")

SomeOpFailed == \E i \in DOMAIN ops : ops[i].err

\* C3: a sync run with dryrun set issues no mutating remote call; its reads are
\* issued all the same: with the loop over, every project whose branch handler
\* returned without error had each declared rule's protection fetched, and every
\* project had its settings and approval settings fetched when the section is
\* declared.
C3_DryrunIssuesNoMutatingCall ==
    (cmd = "sync" /\ dryrun) =>
        /\ \A i \in DOMAIN calls : calls[i].op \notin MutatingCalls
        /\ LoopDone =>
              \A i \in DOMAIN projects :
                 LET reads(op) == {j \in DOMAIN calls : /\ calls[j].op = op
                                                        /\ calls[j].target = projects[i].ID}
                 IN  /\ ~ops[3 * (i - 1) + 1].err =>
                           \A r \in DOMAIN config.ProtectedBranches :
                              \E j \in reads("GetProtectedBranch") :
                                 calls[j].name = config.ProtectedBranches[r].Name
                     /\ config.ProjectSettings.present => reads("GetProject") # {}
                     /\ config.ApprovalSettings.present
                           => reads("GetApprovalConfiguration") # {}

\* a dry run over two projects has ended; it found a rule's branch unprotected
\* and settings to change, and issued reads only
C3_Witness ==
    /\ cmd = "sync" /\ dryrun /\ pc = "done" /\ Len(projects) >= 2
    /\ config.ProtectedBranches # <<>> /\ config.ProjectSettings.present
    /\ \E i \in DOMAIN calls : calls[i].op = "GetProtectedBranch" /\ calls[i].resp = "404"
    /\ \E i \in DOMAIN calls : calls[i].op = "GetProject" /\ calls[i].a = 2
    /\ \A i \in DOMAIN calls : calls[i].op \in ReadCalls \cup {"GetGroup", "ListGroupProjects"}

\* C6 as stated: a sync run never stops in the middle of its loop; a run that has
\* stopped attempted every operation of every listed project, and a failed
\* operation has set the error flag.
C6_EveryProjectProcessed ==
    (cmd = "sync" /\ pc \in {"done", "failed", "fatal", "panic"}) =>
        /\ AllAttempted
        /\ SomeOpFailed => GetError(config)

\* C7 as stated: a command ends with a failure exit status exactly when a
\* per-project operation failed.
C7_FailureExitIffOpFailed ==
    /\ pc \in {"failed", "fatal", "panic"} => SomeOpFailed
    /\ pc = "done" => ~SomeOpFailed

\* C7 amended: the error flag starts false, is set by every failed per-project
\* operation and by nothing else, and is never reset; a run that reaches the
\* closing check of the flag ends with a failure exit status exactly when a
\* per-project operation failed.
C7_FailureExitAtCheckIffOpFailed ==
    /\ [](GetError(config) <=> SomeOpFailed)
    /\ [](pc = "failed" => SomeOpFailed)
    /\ [](pc = "done" => ~SomeOpFailed)
    /\ [][GetError(config) => GetError(config')]_vars
    /\ [][pc' \in {"failed", "done"} => pc = "check"]_vars
    /\ [][pc = "check" => pc' = IF SomeOpFailed THEN "failed" ELSE "done"]_vars

\* a sync run whose second project's settings update failed has gone on to the
\* end and exited through the flag
C7_Witness ==
    /\ cmd = "sync" /\ pc = "failed" /\ AllAttempted /\ Len(projects) >= 2
    /\ ops[5].err /\ ops[5].op = "UpdateProjectSettings"
    /\ \A i \in DOMAIN ops : i # 5 => ~ops[i].err

\* C8 as stated: after a sync run that is no dry run and ends without failure,
\* every declared tag rule's tag is protected on every project with exactly the
\* declared create access level.
C8_TagRulesEnforced ==
    (cmd = "sync" /\ ~dryrun /\ pc = "done") =>
        \A i \in DOMAIN projects : \A t \in DOMAIN config.ProtectedTags :
            remote.tags[projects[i].ID][config.ProtectedTags[t].Name]
                = ProtectedTag(<<Value(config.ProtectedTags[t].CreateAccessLevel)>>)

----------------------------------------------------------------------------
(* Settings: claims *)

\* every field the patch declares has the declared value in cur
NoOpPatch(cur, patch) == \A f \in patch.decl : cur[f] = patch.val[f]

\* the step issued no failing call
NoCallFailed == \A i \in DOMAIN NewCalls : NewCalls[i].resp = "ok"

\* both snapshots of the project are recorded and equal
EqualSnapshots(original, updated, path) ==
    /\ path \in DOMAIN original /\ path \in DOMAIN updated
    /\ original[path] = updated[path]

\* C4 as stated, for the runs of the handlers whose remote calls all succeed: a
\* declared patch that is a no-op against the project's state on the server
\* makes UpdateProjectSettings (UpdateProjectApprovalSettings) issue no update
\* call and record two equal snapshots.
C4_NoOpPatchIssuesNoUpdate ==
    [][/\ (pc = "settings" /\ config.ProjectSettings.present /\ NoCallFailed
             /\ NoOpPatch(remote.settings[Current.ID], config.ProjectSettings))
          => /\ Len(CallsTo(NewCalls, "EditProject")) = 0
             /\ EqualSnapshots(snap'.ProjectSettingsOriginal,
                               snap'.ProjectSettingsUpdated, Current.PathWithNamespace)
       /\ (pc = "approvals" /\ config.ApprovalSettings.present /\ NoCallFailed
             /\ NoOpPatch(remote.approvals[Current.ID], config.ApprovalSettings))
          => /\ Len(CallsTo(NewCalls, "ChangeApprovalConfiguration")) = 0
             /\ EqualSnapshots(snap'.ApprovalSettingsOriginal,
                               snap'.ApprovalSettingsUpdated, Current.PathWithNamespace)
      ]_vars

\* C9 as stated: when the report is generated the Original and the Updated map
\* of either kind hold the same project paths, and every project whose handler
\* ran with its section declared has both snapshots.
C9_SnapshotKeySetsEqual ==
    (cmd = "sync" /\ pc = "report") =>
        /\ DOMAIN snap.ProjectSettingsOriginal = DOMAIN snap.ProjectSettingsUpdated
        /\ DOMAIN snap.ApprovalSettingsOriginal = DOMAIN snap.ApprovalSettingsUpdated
        /\ \A i \in DOMAIN projects :
              /\ config.ProjectSettings.present
                    => projects[i].PathWithNamespace \in DOMAIN snap.ProjectSettingsUpdated
              /\ config.ApprovalSettings.present
                    => projects[i].PathWithNamespace \in DOMAIN snap.ApprovalSettingsUpdated

----------------------------------------------------------------------------
(* The project listing: claims *)

\* all projects of the resolved group, in listing order
Listed == GroupProjects(remote, groupID)

\* the number of pages the server reports for the resolved group
TotalPages == (Len(Listed) + remote.perPage - 1) \div remote.perPage

\* the pages the server has served, in the order of the requests
ServedPages ==
    LET cs == CallsTo(calls, "ListGroupProjects") IN [i \in DOMAIN cs |-> cs[i].b]

\* a call of GetProjects has returned
Returned == pc \in {"branches", "report"}

\* C11 as stated: all calls of GetProjects in one process return the same
\* projects, whatever the page size.
C11_ListingIdempotent ==
    \A i, j \in DOMAIN listings : listings[i] = listings[j]

\* C12: the pagination loop is left, whatever total the server reports; when it
\* is left without an error the page number has reached the total, every page
\* 1..TotalPages was requested exactly once, in order (and the first page when
\* the total is 0), and every project of the group that passes the filter is in
\* the result exactly once.
C12_PaginationTerminates ==
    /\ [](Returned =>
            /\ listGroupProjectOps.Page >= TotalPages \/ TotalPages = 1
            /\ ServedPages = [i \in 1..(IF TotalPages = 0 THEN 1 ELSE TotalPages) |-> i]
            /\ projects = KeepProjects(Listed, config)
            /\ \A i, j \in DOMAIN projects : projects[i] = projects[j] => i = j)
    /\ (pc = "listing" ~> pc # "listing")

\* a group of several pages has been listed whole, with one request a page
C12_Witness ==
    /\ Returned /\ TotalPages >= 2 /\ Len(ServedPages) = TotalPages
    /\ Len(projects) = Len(Listed) /\ Len(projects) >= 2

\* a listed project passes the filter
Passes(q) ==
    /\ \/ config.ProjectWhitelist = <<>>
       \/ \E i \in DOMAIN config.ProjectWhitelist :
             Occurs(config.ProjectWhitelist[i], q.PathWithNamespace)
    /\ \A i \in DOMAIN config.ProjectBlacklist :
             ~Occurs(config.ProjectBlacklist[i], q.PathWithNamespace)

\* C13: GetProjects returns the listed projects that pass the filter (the
\* allow-list is empty or an entry of it occurs in the path, and no entry of the
\* deny-list occurs in the path), in listing order.
C13_FilterKeeps ==
    Returned =>
        /\ \A i \in DOMAIN Listed :
              Passes(Listed[i]) <=> \E j \in DOMAIN projects : projects[j] = Listed[i]
        /\ \A j \in DOMAIN projects : \E i \in DOMAIN Listed : projects[j] = Listed[i]
        /\ \A i, j \in DOMAIN projects :
              i < j => \E k, l \in DOMAIN Listed :
                          k < l /\ Listed[k] = projects[i] /\ Listed[l] = projects[j]

\* a deny-list has dropped the first of two listed projects
C13_Witness ==
    /\ Returned /\ Len(Listed) = 2 /\ Len(projects) = 1
    /\ config.ProjectBlacklist # <<>>
    /\ projects[1] = Listed[2]

----------------------------------------------------------------------------
(* Branch protection: the unprotected branch, the comparison, failures *)

\* the rule {name: main, push: maintainer, merge: developer}
MainRule == Rule("main", "maintainer", "developer")

\* the step is the iteration of MainRule and its GetProtectedBranch call is
\* answered 404
MainRuleNotFound ==
    /\ pc = "rule" /\ RuleAt = MainRule
    /\ \E i \in DOMAIN NewCalls :
          NewCalls[i].op = "GetProtectedBranch" /\ NewCalls[i].resp = "404"

\* in the log cs, exactly one protect call, for branch main of the project, with
\* push access level 40 and merge access level 30
OneProtectOfMain(cs, project) ==
    LET p == CallsTo(cs, "ProtectRepositoryBranches")
    IN  /\ Len(p) = 1
        /\ p[1].target = project.ID /\ p[1].name = "main"
        /\ p[1].a = 40 /\ p[1].b = 30

\* C14 as stated: when the rule {main, push maintainer, merge developer} is
\* reconciled and GetProtectedBranch answers 404, exactly one
\* ProtectRepositoryBranches call is issued, with push 40 and merge 30.
C14_ProtectsUnprotectedMain ==
    [][MainRuleNotFound => OneProtectOfMain(NewCalls, Current)]_vars

\* C14 amended: the same in a run that is no dry run and whose unprotect call is
\* answered with success or 404; in a dry run, and when the unprotect call fails
\* otherwise, no ProtectRepositoryBranches call is issued.
C14_ProtectsUnprotectedMainUnlessSkipped ==
    [][MainRuleNotFound =>
         LET u == CallsTo(NewCalls, "UnprotectRepositoryBranches")
             p == CallsTo(NewCalls, "ProtectRepositoryBranches")
         IN  /\ dryrun => Len(u) = 0 /\ Len(p) = 0
             /\ ~dryrun => Len(u) = 1
             /\ (~dryrun /\ u[1].resp \in {"ok", "404"})
                   => OneProtectOfMain(NewCalls, Current)
             /\ (~dryrun /\ u[1].resp = "error") => Len(p) = 0]_vars

\* the three calls of the iteration, one after the other: the fetch of main
\* answered 404, the unprotect, the protect with 40 and 30, which succeeded
C14_Witness ==
    /\ ~dryrun /\ config.ProtectedBranches # <<>>
    /\ \E i \in DOMAIN calls :
          /\ i + 2 <= Len(calls)
          /\ calls[i].op = "GetProtectedBranch" /\ calls[i].resp = "404"
          /\ calls[i].name = "main"
          /\ calls[i + 1].op = "UnprotectRepositoryBranches"
          /\ calls[i + 2].op = "ProtectRepositoryBranches"
          /\ calls[i + 2].a = 40 /\ calls[i + 2].b = 30 /\ calls[i + 2].resp = "ok"
          /\ remote.protected[calls[i].target]["main"]
                = Protected(<<MaintainerPermissions>>, <<DeveloperPermissions>>)

\* the numeric value of a declared role: developer 30, maintainer 40, every
\* other role string 0
RoleValue(role) ==
    IF role = "developer" THEN 30 ELSE IF role = "maintainer" THEN 40 ELSE 0

\* the server reports exactly one entry on the axis, of the role's value
OneEntryOf(levels, role) == Len(levels) = 1 /\ levels[1] = RoleValue(role)

\* the step's fetch call op was answered with a protection
Reported(op) ==
    \E i \in DOMAIN NewCalls : NewCalls[i].op = op /\ NewCalls[i].resp = "ok"

TagRuleAt == config.ProtectedTags[rule]
TagProtectionAt == remote.tags[Current.ID][TagRuleAt.Name]

\* C15: a protection the server reports matches the declared rule, and the rule
\* is passed over with no call and the server unchanged, if and only if each
\* axis (push and merge of a branch, create of a tag) has exactly one entry whose
\* level is the value of the declared role (developer 30, maintainer 40, any
\* other string 0); with zero entries, several entries or another level the rule
\* is replaced: outside a dry run the unprotect call is issued for it.
C15_MatchIffOneEntryOfRoleValue ==
    /\ [][(pc = "rule" /\ Reported("GetProtectedBranch")) =>
            LET same == /\ OneEntryOf(ProtectionAt.push, RuleAt.PushAccessLevel)
                        /\ OneEntryOf(ProtectionAt.merge, RuleAt.MergeAccessLevel)
                u    == CallsTo(NewCalls, "UnprotectRepositoryBranches")
                p    == CallsTo(NewCalls, "ProtectRepositoryBranches")
            IN  /\ same => Len(u) = 0 /\ Len(p) = 0 /\ remote' = remote
                /\ (~same /\ ~dryrun) => Len(u) = 1 /\ u[1].name = RuleAt.Name
                /\ (~same /\ ~dryrun /\ Len(p) = 1)
                      => /\ p[1].a = RoleValue(RuleAt.PushAccessLevel)
                         /\ p[1].b = RoleValue(RuleAt.MergeAccessLevel)]_vars
    /\ [][(pc = "tag" /\ Reported("GetProtectedTag")) =>
            LET same == OneEntryOf(TagProtectionAt.create, TagRuleAt.CreateAccessLevel)
                u    == CallsTo(NewCalls, "UnprotectRepositoryTags")
                p    == CallsTo(NewCalls, "ProtectRepositoryTags")
            IN  /\ same => Len(u) = 0 /\ Len(p) = 0 /\ remote' = remote
                /\ (~same /\ ~dryrun) => Len(u) = 1 /\ u[1].name = TagRuleAt.Name
                /\ (~same /\ ~dryrun /\ Len(p) = 1)
                      => p[1].a = RoleValue(TagRuleAt.CreateAccessLevel)]_vars

\* a rule with a misspelt role was passed over, the server holding one entry of
\* level 0 for it
C15_Witness ==
    /\ ~dryrun /\ pc = "settings" /\ Len(config.ProtectedBranches) = 1
    /\ config.ProtectedBranches[1].PushAccessLevel = "maintaner"
    /\ config.ProtectedBranches[1].MergeAccessLevel = "developer"
    /\ remote.protected[Current.ID]["main"]
          = Protected(<<NoPermissions>>, <<DeveloperPermissions>>)
    /\ Last(calls).op = "GetProtectedBranch" /\ Last(calls).resp = "ok"

----------------------------------------------------------------------------
(* The default branch: claims *)

\* create_default_branch is set and a default branch other than "master" is
\* declared
DefaultBranchDeclared ==
    /\ config.CreateDefaultBranch
    /\ config.ProjectSettings.present
    /\ "default_branch" \in config.ProjectSettings.decl
    /\ config.ProjectSettings.val.default_branch # "master"

\* the step's one CreateBranch call: for the declared branch of the project at
\* index, from ref "master"
OneCreateBranchFromMaster ==
    LET c == CallsTo(NewCalls, "CreateBranch")
    IN  /\ Len(c) = 1
        /\ c[1].target = Current.ID
        /\ c[1].name = config.ProjectSettings.val.default_branch
        /\ c[1].ref = "master"

\* what C16 says of every answer but 404: without the declaration no call; with
\* it the branch is fetched first; a fetch that succeeds is followed by nothing;
\* a fetch answered with no response or another status is followed by no
\* CreateBranch, the handler returns an error and no rule of the project is
\* processed
DefaultBranchFetched ==
    /\ ~DefaultBranchDeclared => NewCalls = <<>> /\ remote' = remote
    /\ DefaultBranchDeclared =>
          /\ Len(NewCalls) >= 1
          /\ NewCalls[1].op = "GetBranch" /\ NewCalls[1].target = Current.ID
          /\ NewCalls[1].name = config.ProjectSettings.val.default_branch
          /\ NewCalls[1].resp = "ok" =>
                /\ Len(NewCalls) = 1 /\ remote' = remote
                /\ pc' = "settings" => ~Last(ops').err
          /\ NewCalls[1].resp = "error" =>
                /\ Len(NewCalls) = 1 /\ remote' = remote
                /\ pc' = "settings"
                /\ Last(ops').op = "EnsureBranchesAndProtection" /\ Last(ops').err

\* C16 as stated: ensureDefaultBranch issues calls only when create_default_branch
\* is set and a default branch other than "master" is declared; it fetches the
\* branch, does nothing if the fetch succeeds, issues exactly one CreateBranch
\* from ref "master" if the fetch answers 404, and returns an error, with no
\* CreateBranch and no branch protection processed for the project, for no
\* response or any other status.
C16_DefaultBranchEnsured ==
    [][pc = "branches" =>
         /\ DefaultBranchFetched
         /\ (DefaultBranchDeclared /\ NewCalls[1].resp = "404")
               => OneCreateBranchFromMaster]_vars

\* C16 amended: the same, the CreateBranch call after a 404 being issued in a run
\* that is no dry run; in a dry run a 404 is followed by no call, the server
\* stays as it is and the handler goes on without error.
C16_DefaultBranchEnsuredUnlessDryrun ==
    [][pc = "branches" =>
         /\ DefaultBranchFetched
         /\ (DefaultBranchDeclared /\ NewCalls[1].resp = "404" /\ ~dryrun)
               => OneCreateBranchFromMaster /\ Len(NewCalls) = 2
         /\ (DefaultBranchDeclared /\ NewCalls[1].resp = "404" /\ dryrun)
               => /\ Len(NewCalls) = 1 /\ remote' = remote
                  /\ pc' = "settings" => ~Last(ops').err]_vars

\* the branch "develop" was missing, was created from "master" and the rules of
\* the project were processed after it
C16_Witness ==
    /\ ~dryrun /\ DefaultBranchDeclared /\ pc = "settings"
    /\ \E i \in DOMAIN calls :
          /\ i + 2 <= Len(calls)
          /\ calls[i].op = "GetBranch" /\ calls[i].resp = "404"
          /\ calls[i + 1].op = "CreateBranch" /\ calls[i + 1].resp = "ok"
          /\ calls[i + 1].ref = "master" /\ calls[i + 1].name = "develop"
          /\ calls[i + 2].op = "GetProtectedBranch"
    /\ "develop" \in remote.branches[Current.ID]

----------------------------------------------------------------------------
(* The compliance command: claims *)

Subsections == {"approval_settings", "project_settings"}

\* the compliance command has run GenerateComplianceReport
ReportRan ==
    /\ cmd = "compliance"
    /\ \/ pc \in {"panic", "email", "check", "done", "failed"}
       \/ pc = "fatal" /\ \E i \in DOMAIN calls : calls[i].op = "SendEmail"

\* a mandatory setting name that is no field of the object of its subsection
NoField(subsection, setting) ==
    /\ setting \in config.Compliance.Mandatory[subsection]
    /\ setting \notin SubsectionFields(subsection)

\* the report has a line for the setting of the project with the marker
Marked(project, subsection, setting) ==
    \E k \in DOMAIN report :
       report[k] = Line(project.PathWithNamespace, subsection, setting,
                        "NOT VALID SETTING")

\* C17: for every mandatory setting name of approval_settings or
\* project_settings that is no field of the settings object, the compliance
\* report prints "NOT VALID SETTING" for that setting on every project, and the
\* report neither fails nor sets the error flag.
C17_InvalidSettingMarked ==
    /\ [](ReportRan =>
            \A i \in DOMAIN projects : \A subsection \in Subsections :
               \A setting \in config.Compliance.Mandatory[subsection] :
                  NoField(subsection, setting)
                     => Marked(projects[i], subsection, setting))
    /\ [][(pc = "creport" /\ \E subsection \in Subsections :
                               \E setting \in config.Compliance.Mandatory[subsection] :
                                  NoField(subsection, setting))
            => pc' = "email" /\ config' = config]_vars

\* the same for the runs in which no fetch failed, so that every snapshot of
\* every project is recorded
MarkedWhenFetched ==
    (ReportRan /\ \A i \in DOMAIN ops : ~ops[i].err) =>
        /\ pc # "panic"
        /\ \A i \in DOMAIN projects : \A subsection \in Subsections :
              \A setting \in config.Compliance.Mandatory[subsection] :
                 NoField(subsection, setting)
                    => Marked(projects[i], subsection, setting)

----------------------------------------------------------------------------
(* The dry run and the change log: claims *)

\* the sync command has printed its change log
ChangeLogPrinted == cmd = "sync" /\ pc \in {"check", "done", "failed"}

\* the settings of the patch whose value on the server, cur, a run that is no dry
\* run would change
WouldChange(cur, patch) ==
    IF patch.present THEN {f \in patch.decl : cur[f] # patch.val[f]} ELSE {}

\* the change log has the line of the project's setting f, from the value on
\* the server to the declared one
ChangeReported(project, subsection, f, cur, patch) ==
    \E k \in DOMAIN report :
       report[k] = ChangeLine(project.PathWithNamespace, subsection, f,
                              Format(f, cur[f]), Format(f, patch.val[f]))

\* C18: with dryrun set, sync sets nothing on the server, and its change log
\* reports every setting that a run without dryrun would change, as a change
\* from the value on the server to the declared value.
C18_DryrunReportsChanges ==
    /\ [][(cmd = "sync" /\ dryrun) => remote' = remote]_vars
    /\ [](ChangeLogPrinted /\ dryrun =>
            \A i \in DOMAIN projects :
               LET id == projects[i].ID
               IN  /\ \A f \in WouldChange(remote.settings[id], config.ProjectSettings) :
                         ChangeReported(projects[i], "project_settings", f,
                                        remote.settings[id], config.ProjectSettings)
                   /\ \A f \in WouldChange(remote.approvals[id], config.ApprovalSettings) :
                         ChangeReported(projects[i], "approval_settings", f,
                                        remote.approvals[id], config.ApprovalSettings))

\* the same of a run without dryrun whose remote calls all succeed, the values
\* on the server being those the run has set: its change log has a line for
\* every field the run has changed
ChangesReportedWhenSet ==
    (ChangeLogPrinted /\ ~dryrun /\ faults = 0 /\ pc = "done") =>
        \A i \in DOMAIN projects :
           LET path == projects[i].PathWithNamespace
           IN  config.ProjectSettings.present =>
                  \A f \in ProjectFields :
                     snap.ProjectSettingsOriginal[path].val[f]
                        # remote.settings[projects[i].ID][f]
                     => \E k \in DOMAIN report :
                           /\ report[k].project = path /\ report[k].setting = f
                           /\ report[k].to = Format(f, remote.settings[projects[i].ID][f])

\* the calls that fetch a group, its subgroups, its projects, the approval
\* settings or the settings of a project
FetchCalls ==
    {"GetGroup", "ListSubgroups", "ListGroupProjects", "GetApprovalConfiguration",
     "GetProject"}

\* C19: the compliance command is read-only: the calls it issues to the server
\* are fetches of groups, projects and approval settings, none of them a
\* mutating call, and no step of it changes the state of the server.
C19_ComplianceReadOnly ==
    /\ [](cmd = "compliance" =>
            \A i \in DOMAIN calls :
               /\ calls[i].op \notin MutatingCalls
               /\ calls[i].op # "SendEmail" => calls[i].op \in FetchCalls)
    /\ [][cmd = "compliance" => remote' = remote]_vars

\* a compliance run over two projects has ended; its configuration declares a
\* rule and project settings that differ from those on the server, and both
\* projects were fetched
C19_Witness ==
    /\ cmd = "compliance" /\ pc = "done" /\ Len(projects) >= 2
    /\ config.ProtectedBranches # <<>>
    /\ \A i \in DOMAIN projects :
          /\ WouldChange(remote.settings[projects[i].ID], config.ProjectSettings) # {}
          /\ \E k \in DOMAIN calls :
                calls[k].op = "GetProject" /\ calls[k].target = projects[i].ID
          /\ \E k \in DOMAIN calls :
                /\ calls[k].op = "GetApprovalConfiguration"
                /\ calls[k].target = projects[i].ID

----------------------------------------------------------------------------
(* Branch protection: the failed protect call *)

\* the branch operations on the server
BranchCalls ==
    {"GetBranch", "CreateBranch", "GetProtectedBranch", "UnprotectRepositoryBranches",
     "ProtectRepositoryBranches"}

\* the step is an iteration whose unprotect call did not fail and whose protect
\* call failed
ProtectFailed ==
    /\ pc = "rule"
    /\ \E i \in DOMAIN NewCalls :
          /\ NewCalls[i].op = "UnprotectRepositoryBranches"
          /\ NewCalls[i].resp \in {"ok", "404"}
    /\ \E i \in DOMAIN NewCalls :
          NewCalls[i].op = "ProtectRepositoryBranches" /\ NewCalls[i].resp = "error"

\* C20: when ProtectRepositoryBranches fails after the unprotect step succeeded,
\* EnsureBranchesAndProtection returns an error at once: the protect call is not
\* repeated, no later rule of the project is processed (no branch call on the
\* project follows the failed one), and the branch is left unprotected on the
\* server.
C20_ProtectFailureLeavesUnprotected ==
    /\ [][ProtectFailed =>
            /\ Len(CallsTo(NewCalls, "ProtectRepositoryBranches")) = 1
            /\ Last(NewCalls).op = "ProtectRepositoryBranches"
            /\ pc' = "settings" /\ rule' = rule
            /\ Last(ops').op = "EnsureBranchesAndProtection"
            /\ Last(ops').project = Current.ID /\ Last(ops').err
            /\ remote'.protected[Current.ID][RuleAt.Name] = Unprotected]_vars
    /\ [](\A i \in DOMAIN calls :
             (calls[i].op = "ProtectRepositoryBranches" /\ calls[i].resp = "error")
                => /\ \A j \in DOMAIN calls :
                         (j > i /\ calls[j].target = calls[i].target)
                            => calls[j].op \notin BranchCalls
                   /\ ~remote.protected[calls[i].target][calls[i].name].present)

\* of two declared rules the first one's branch was protected, its unprotect call
\* succeeded and its protect call failed; the run has gone on to the end with no
\* call for the second rule
C20_Witness ==
    /\ cmd = "sync" /\ pc = "failed" /\ Len(config.ProtectedBranches) = 2
    /\ config.ProtectedBranches[1].Name # config.ProtectedBranches[2].Name
    /\ \E i \in DOMAIN calls :
          /\ i > 1
          /\ calls[i - 1].op = "UnprotectRepositoryBranches" /\ calls[i - 1].resp = "ok"
          /\ calls[i].op = "ProtectRepositoryBranches" /\ calls[i].resp = "error"
          /\ calls[i].name = config.ProtectedBranches[1].Name
          /\ remote.protected[calls[i].target][calls[i].name] = Unprotected
    /\ \A i \in DOMAIN calls : calls[i].name # config.ProtectedBranches[2].Name

----------------------------------------------------------------------------
(* The order of the phases: claims *)

\* the phase of sync a call to the server belongs to; 0 for the calls of the
\* project listing
Phase(op) ==
    CASE op \in {"GetBranch", "CreateBranch"} -> 1
      [] op \in {"GetProtectedBranch", "UnprotectRepositoryBranches",
                 "ProtectRepositoryBranches"} -> 2
      [] op \in {"GetProject", "EditProject"} -> 3
      [] op \in {"GetApprovalConfiguration", "ChangeApprovalConfiguration"} -> 4
      [] OTHER -> 0

\* the calls of the log on projects, and the place of a call's project in the
\* list of projects
OnProject(j) == Phase(calls[j].op) > 0
PlaceOf(j) == CHOOSE i \in DOMAIN projects : projects[i].ID = calls[j].target

\* the names of the branches whose protection was fetched for the project, in
\* the order of the calls
FetchedRules(id) ==
    LET gets == SelectSeq(calls, LAMBDA c : c.op = "GetProtectedBranch" /\ c.target = id)
    IN  [n \in DOMAIN gets |-> gets[n].name]

\* the handlers of the loop body, in order
Handlers ==
    <<"EnsureBranchesAndProtection", "UpdateProjectSettings",
      "UpdateProjectApprovalSettings">>

\* C21: for each project sync runs its phases in a fixed order: the default
\* branch, then the branch rules in declared order, then the project settings,
\* then the approval settings; so a CreateBranch of a project precedes its
\* EditProject, and every call for a project precedes every call for the next
\* project (each call on a project is followed by a call of the same project in
\* the same or a later phase, or by a call of a later project).
C21_PhasesInOrder ==
    cmd = "sync" =>
        /\ \A k \in DOMAIN calls :
              (OnProject(k) /\ k < Len(calls)) =>
                 /\ OnProject(k + 1)
                 /\ \/ PlaceOf(k) < PlaceOf(k + 1)
                    \/ PlaceOf(k) = PlaceOf(k + 1)
                       /\ Phase(calls[k].op) <= Phase(calls[k + 1].op)
        /\ \A k \in DOMAIN calls :
              calls[k].op = "EditProject" =>
                 \A j \in DOMAIN calls :
                    (calls[j].op = "CreateBranch" /\ calls[j].target = calls[k].target)
                       => j < k
        /\ \A i \in DOMAIN projects :
              LET fetched  == FetchedRules(projects[i].ID)
                  declared == config.ProtectedBranches
              IN  /\ Len(fetched) <= Len(declared)
                  /\ \A n \in DOMAIN fetched : fetched[n] = declared[n].Name
        /\ \A n \in DOMAIN ops :
              /\ ops[n].op = Handlers[((n - 1) % 3) + 1]
              /\ ops[n].project = projects[((n - 1) \div 3) + 1].ID

\* a run that is no dry run has ended after two projects: for each the branch
\* "develop" was created, both rules were replaced, develop before main, and
\* the default branch was set after that
C21_Witness ==
    /\ cmd = "sync" /\ ~dryrun /\ pc = "done" /\ Len(projects) = 2
    /\ Len(config.ProtectedBranches) = 2 /\ config.ProtectedBranches[1].Name = "develop"
    /\ config.ApprovalSettings.present
    /\ \A i \in DOMAIN projects :
          LET at(x, op, name) == /\ calls[x].target = projects[i].ID
                                 /\ calls[x].op = op /\ calls[x].name = name
          IN  \E c \in DOMAIN calls :
                 /\ at(c, "CreateBranch", "develop")
                 /\ \E p \in DOMAIN calls :
                       /\ c < p /\ at(p, "ProtectRepositoryBranches", "develop")
                       /\ \E q \in DOMAIN calls :
                             /\ p < q /\ at(q, "ProtectRepositoryBranches", "main")
                             /\ \E e \in DOMAIN calls :
                                   /\ q < e /\ at(e, "EditProject", "")
                                   /\ \E a \in DOMAIN calls :
                                         /\ e < a
                                         /\ at(a, "ChangeApprovalConfiguration", "")

----------------------------------------------------------------------------
(* Group resolution: the resolved group *)

\* GetSubgroupID has returned without error: its first lookup succeeded
SubgroupResolved ==
    /\ Resolved /\ Segs >= 2
    /\ Lookups # <<>> /\ Lookups[1].resp = "ok"

\* the groups of the server under the first n segments of the configured path
GroupsAt(n) ==
    {g \in GroupsOf(remote) : FullPath(remote, g) = SubSeq(config.GroupName, 1, n)}

\* C22: when GetSubgroupID returns without error for a path of several
\* segments, the id it returns is that of the group whose full path is the
\* configured path and is never 0, and the lookup of segment k + 1 lists the
\* subgroups of the group matched for segment k: the first lookup those of the
\* root group of the path, every later one those of the group under the first
\* k segments.
C22_ResolvedGroupIsConfiguredPath ==
    SubgroupResolved =>
        /\ groupID # 0
        /\ \E g \in GroupsAt(Segs) : g.ID = groupID
        /\ Lookups[1].target = 0 /\ Lookups[1].name = config.GroupName[1]
        /\ \A k \in DOMAIN Lookups :
              k >= 2 => \E g \in GroupsAt(k) : g.ID = Lookups[k].target

----------------------------------------------------------------------------
(* The default branch: a configuration without project settings *)

\* C23: EnsureBranchesAndProtection does not crash on a valid configuration:
\* whatever create_default_branch is and whether or not the project_settings
\* section and its default_branch are declared, the step that ensures the
\* default branch returns, to the rules or to the caller, and never ends the
\* run in a panic.
C23_DefaultBranchReturns ==
    [][pc = "branches" => pc' \in {"rule", "settings"}]_vars

----------------------------------------------------------------------------
(* The compliance command: a failed fetch *)

\* the compliance command has recorded a failed fetch of a project's approval
\* settings or project settings
FetchFailed(o) ==
    \E i \in DOMAIN o :
       o[i].op \in {"GetProjectApprovalSettings", "GetProjectSettings"} /\ o[i].err

\* C24: in the compliance command a failed fetch of a project's approval
\* settings or project settings sets the error flag and the loop goes on to the
\* next project or to the report; the report is then generated to the end, the
\* failed project included, and the command ends in the test of the error flag.
C24_FailedFetchEndsInErrorCheck ==
    /\ [][(pc = "fetch" /\ FetchFailed(ops') /\ ~FetchFailed(ops))
            => GetError(config') /\ pc' \in {"fetch", "creport"}]_vars
    /\ [][(pc = "creport" /\ FetchFailed(ops))
            => /\ pc' = "email"
               /\ \A i \in DOMAIN projects : \A subsection \in Subsections :
                     \A setting \in config.Compliance.Mandatory[subsection] :
                        \E k \in DOMAIN report' :
                           /\ report'[k].project = projects[i].PathWithNamespace
                           /\ report'[k].subsection = subsection
                           /\ report'[k].setting = setting]_vars
    /\ [][(pc = "check" /\ FetchFailed(ops)) => pc' = "failed"]_vars

----------------------------------------------------------------------------
(* Branch protection: a second run on the same project *)

\* the returns of EnsureBranchesAndProtection for the project the loop is at
BranchRuns ==
    SelectSeq(ops, LAMBDA o : o.op = "EnsureBranchesAndProtection"
                              /\ o.project = Current.ID)

\* EnsureBranchesAndProtection called once more for the project it has just
\* returned for, with the same configuration
EnsureBranchesAndProtectionAgain ==
    /\ cmd = "sync" /\ pc = "settings"
    /\ Len(BranchRuns) = 1
    /\ pc' = "branches"
    /\ UNCHANGED <<cmd, dryrun, config, remote, calls, ops, projects, index, snap,
                   faults, listGroupProjectOps, rule, groupID, listings, report>>

NextConverge == Next \/ EnsureBranchesAndProtectionAgain

SpecConverge == InitBranches /\ [][NextConverge]_vars

\* the second call is running, after a first one that was no dry run and
\* returned without error
SecondRun ==
    /\ cmd = "sync" /\ ~dryrun /\ pc \in {"branches", "rule"}
    /\ Len(BranchRuns) = 1 /\ ~BranchRuns[1].err

NoBranchChange ==
    \A k \in DOMAIN NewCalls :
       NewCalls[k].op \notin {"UnprotectRepositoryBranches", "ProtectRepositoryBranches"}

RulesAgree ==
    \A i, j \in DOMAIN config.ProtectedBranches :
       config.ProtectedBranches[i].Name = config.ProtectedBranches[j].Name
          => config.ProtectedBranches[i] = config.ProtectedBranches[j]

\* the protection fetched in this step was answered
FetchAnswered ==
    \A k \in DOMAIN NewCalls :
       NewCalls[k].op = "GetProtectedBranch" => NewCalls[k].resp = "ok"

----------------------------------------------------------------------------
(* Branch protection: the failed fetch and the failed unprotect call *)

\* the step is an iteration whose GetProtectedBranch call failed, with 404 or
\* with any other error
GetProtectedBranchFailed ==
    /\ cmd = "sync" /\ pc = "rule"
    /\ NewCalls # <<>>
    /\ NewCalls[1].op = "GetProtectedBranch"
    /\ NewCalls[1].resp \in {"404", "error"}

\* the step ends EnsureBranchesAndProtection with an error
ReturnsError ==
    /\ pc' = "settings" /\ Len(ops') = Len(ops) + 1
    /\ Last(ops').op = "EnsureBranchesAndProtection" /\ Last(ops').err

\* the failure of the fetch is not what the handler returns: in a dry run the
\* iteration ends after the fetch without error, and an error returned comes
\* from a later call of the iteration
FetchFailureNotReturned ==
    /\ dryrun => Len(NewCalls) = 1 /\ ~ReturnsError
    /\ ReturnsError => Len(NewCalls) > 1 /\ Last(NewCalls).resp = "error"

\* C26 as stated: a GetProtectedBranch failure of any kind is never returned as
\* an error and the rule is handled as if the branch were unprotected: in a run
\* that is no dry run the unprotect call and the protect call for the branch are
\* issued.
C26_FetchFailureReplaces ==
    [][GetProtectedBranchFailed =>
         /\ FetchFailureNotReturned
         /\ ~dryrun => OneUnprotectThenOneProtect(NewCalls, Current, RuleAt)]_vars

\* C26 amended: the same, the protect call being issued when the unprotect call
\* is answered with success or 404; when the unprotect call fails otherwise no
\* protect call is issued.
C26_FetchFailureReplacesUnlessUnprotectFails ==
    [][GetProtectedBranchFailed =>
         LET u == CallsTo(NewCalls, "UnprotectRepositoryBranches")
             p == CallsTo(NewCalls, "ProtectRepositoryBranches")
         IN  /\ FetchFailureNotReturned
             /\ ~dryrun =>
                   /\ Len(u) = 1 /\ NewCalls[2] = u[1]
                   /\ u[1].target = Current.ID /\ u[1].name = RuleAt.Name
                   /\ u[1].resp \in {"ok", "404"}
                         => OneUnprotectThenOneProtect(NewCalls, Current, RuleAt)
                   /\ u[1].resp = "error" => Len(p) = 0]_vars

\* the fetch of the branch of a declared rule failed with an error other than
\* 404, and the unprotect call and the protect call with the declared levels
\* followed, both answered with success
C26_Witness ==
    /\ cmd = "sync" /\ ~dryrun
    /\ \E i \in DOMAIN calls :
          /\ i + 2 <= Len(calls)
          /\ calls[i].op = "GetProtectedBranch" /\ calls[i].resp = "error"
          /\ calls[i + 1].op = "UnprotectRepositoryBranches" /\ calls[i + 1].resp = "ok"
          /\ calls[i + 2].op = "ProtectRepositoryBranches" /\ calls[i + 2].resp = "ok"
          /\ calls[i + 1].name = calls[i].name /\ calls[i + 2].name = calls[i].name
          /\ \E k \in DOMAIN config.ProtectedBranches :
                /\ config.ProtectedBranches[k].Name = calls[i].name
                /\ calls[i + 2].a = Value(config.ProtectedBranches[k].PushAccessLevel)
                /\ calls[i + 2].b = Value(config.ProtectedBranches[k].MergeAccessLevel)

\* the step is an iteration whose unprotect call failed with a nil response or a
\* status other than 404
UnprotectFailed ==
    /\ cmd = "sync" /\ pc = "rule"
    /\ \E i \in DOMAIN NewCalls :
          NewCalls[i].op = "UnprotectRepositoryBranches" /\ NewCalls[i].resp = "error"

\* the step is an iteration whose unprotect call was answered 404
UnprotectNotFound ==
    /\ cmd = "sync" /\ pc = "rule"
    /\ \E i \in DOMAIN NewCalls :
          NewCalls[i].op = "UnprotectRepositoryBranches" /\ NewCalls[i].resp = "404"

\* C27: when UnprotectRepositoryBranches fails with a nil response or a status
\* other than 404, EnsureBranchesAndProtection returns an error at once: no
\* protect call is issued for the branch, no later rule of the project is
\* processed (no branch call on the project follows the failed one) and the
\* server is left as it was. A 404 of the unprotect call is passed over and the
\* protect call with the declared levels follows it.
C27_UnprotectFailureReturns ==
    /\ [][UnprotectFailed =>
            /\ Len(CallsTo(NewCalls, "ProtectRepositoryBranches")) = 0
            /\ Last(NewCalls).op = "UnprotectRepositoryBranches"
            /\ ReturnsError /\ rule' = rule
            /\ remote' = remote]_vars
    /\ [](\A i \in DOMAIN calls :
             (calls[i].op = "UnprotectRepositoryBranches" /\ calls[i].resp = "error")
                => \A j \in DOMAIN calls :
                      (j > i /\ calls[j].target = calls[i].target)
                         => calls[j].op \notin BranchCalls)
    /\ [][UnprotectNotFound =>
            /\ OneUnprotectThenOneProtect(NewCalls, Current, RuleAt)
            /\ Last(NewCalls).op = "ProtectRepositoryBranches"]_vars

\* of two declared rules the first one's branch held a protection other than the
\* declared one and its unprotect call failed: the protection is still there,
\* no protect call was issued and no call for the second rule, and the run has
\* ended in the test of the error flag
C27_Witness ==
    /\ cmd = "sync" /\ pc = "failed" /\ Len(config.ProtectedBranches) = 2
    /\ config.ProtectedBranches[1].Name # config.ProtectedBranches[2].Name
    /\ Len(CallsTo(calls, "ProtectRepositoryBranches")) = 0
    /\ \E i \in DOMAIN calls :
          /\ calls[i].op = "UnprotectRepositoryBranches" /\ calls[i].resp = "error"
          /\ calls[i].name = config.ProtectedBranches[1].Name
          /\ remote.protected[calls[i].target][calls[i].name].present
          /\ ~Matches(remote.protected[calls[i].target][calls[i].name],
                      config.ProtectedBranches[1])
    /\ \A i \in DOMAIN calls : calls[i].name # config.ProtectedBranches[2].Name

====
